---------------------------- MODULE Spec2Model ----------------------------
(***************************************************************************)
(* A model of mp's FlatConverter (the second half of                       *)
(* src/include/mp/flat/constr_general.h, guard CONVERTER_FLAT_H): the      *)
(* variable arrays, the typed constraint keepers with their dedup maps,    *)
(* the init expressions, the fixed-value cache, the autolink scope and the *)
(* conversion loop.  Doubles are small integers; Infty / MinusInfty are    *)
(* two integers outside the range of the finite values.                    *)
(***************************************************************************)
EXTENDS Integers, Sequences, FiniteSets, TLC

(***************************************************************************)
(* Bounds of the model.                                                    *)
(***************************************************************************)
MaxVars == 3        \* variables a run may hold
MaxBndVars == 2     \* variables a run of the bound operations may hold
MaxVal == 1         \* finite bound values are 0..MaxVal
MaxItems == 3       \* items one keeper may hold
MaxAdd == 2         \* constraints a run of the add/find operations stores
MaxInput == 2       \* constraints the flattener adds before FinishModelInput
MaxInVars == 1      \* variables the input model declares
MaxCalls == 2       \* calls a rewrite rule makes on the converter

(***************************************************************************)
(* Program constants.                                                      *)
(***************************************************************************)
Infty == 9
MinusInfty == -9

Vals == 0..MaxVal
Bnds == Vals \cup {MinusInfty, Infty}
LoBnds == Vals \cup {MinusInfty}
UpBnds == Vals \cup {Infty}

Max2(a, b) == IF a >= b THEN a ELSE b
Min2(a, b) == IF a <= b THEN a ELSE b

(***************************************************************************)
(* Constraint types, in the registration order of the keepers.             *)
(***************************************************************************)
\* a registration order with the functional keepers first
RegOrder_FunctionalFirst ==
  << "LinearFunctionalConstraint", "QuadraticFunctionalConstraint",
     "NotConstraint", "ExpConstraint", "LinConRange", "LinConLE", "LinConEQ",
     "LinConGE", "QuadConEQ", "PLConstraint", "SOS2Constraint" >>

RegOrder ==
  << "LinConRange", "LinConLE", "LinConEQ", "LinConGE", "QuadConEQ",
     "LinearFunctionalConstraint", "QuadraticFunctionalConstraint",
     "NotConstraint", "ExpConstraint", "PLConstraint", "SOS2Constraint" >>

Types == { RegOrder[n] : n \in 1..Len(RegOrder) }

\* STORE_CONSTRAINT_TYPE__WITH_MAP: the keepers that own a dedup map
MappedTypes ==
  { "LinearFunctionalConstraint", "QuadraticFunctionalConstraint",
    "NotConstraint", "ExpConstraint" }

RegIndex(t) == CHOOSE n \in 1..Len(RegOrder) : RegOrder[n] = t

(***************************************************************************)
(* Acceptance levels, contexts, variable types.                            *)
(***************************************************************************)
NotAccepted == 0
AcceptedButNotRecommended == 1
Recommended == 2

CTX_NONE == "None"
CTX_POS == "Positive"
CTX_NEG == "Negative"
CTX_MIX == "Mixed"
Contexts == {CTX_NONE, CTX_POS, CTX_NEG, CTX_MIX}

CONTINUOUS == "continuous"
INTEGER == "integer"

(***************************************************************************)
(* Errors.  An operation that raises leaves `err` set; the converter keeps *)
(* whatever it had already changed.                                        *)
(***************************************************************************)
NoErr == [kind |-> "none", what |-> ""]
InfeasErr == [kind |-> "infeasible", what |-> "empty variable domain"]
RaiseErr(k, w) == [kind |-> k, what |-> w]

(***************************************************************************)
(* Node ranges of the value presolver: (node, first, size).                *)
(***************************************************************************)
VarNode == "var"
NoRange == [node |-> "", first |-> 0, size |-> 0]
Range(n, f, sz) == [node |-> n, first |-> f, size |-> sz]
IsValid(nr) == nr.node # ""

\* AbstractConstraintLocation: (keeper, index); HasId() is false when unset
NoConInfo == [ck |-> "", idx |-> -1]
ConInfo(ck, i) == [ck |-> ck, idx |-> i]
HasId(ci) == ci.ck # ""

VARIABLES
  var_lb, var_ub, var_type,   \* FlatModel: bounds and types, variable v at v+1
  keepers,                    \* per type, the stored items
  maps,                       \* per mapped type, the dedup map {key, idx}
  var_info_,                  \* init expressions, variable v at v+1
  map_fixed_vars_,            \* the fixed-value cache {value, var}
  auto_link_src_item_,        \* autolink scope: source range
  auto_link_targ_items_,      \* autolink scope: target ranges
  links,                      \* links recorded in the value presolver
  acc,                        \* acceptance level of each type
  relax_,                     \* options_.relax_
  options_,                   \* options_: the preprocess flags
  backend,                    \* the solver application and its backend
  err,                        \* the error raised, if any
  phase,                      \* where the run is
  cvt,                        \* position of the conversion loop
  api,                        \* ModelAPI calls made so far
  last,                       \* the last operation: arguments and result
  visited,                    \* items the conversion loop has reached: (t, i, pass)
  declared                    \* bounds the input model declared: << lbs, ubs >>

vars ==
  << var_lb, var_ub, var_type, keepers, maps, var_info_, map_fixed_vars_,
     auto_link_src_item_, auto_link_targ_items_, links, acc, relax_, options_, backend, err,
     phase, cvt, api, last, visited, declared >>

(***************************************************************************)
(* The converter's own fields as one record, so that an operation that     *)
(* calls others is the composition of their effects.  `ret` carries the    *)
(* value an operation returns.                                             *)
(***************************************************************************)
Cur ==
  [ var_lb |-> var_lb, var_ub |-> var_ub, var_type |-> var_type,
    keepers |-> keepers, maps |-> maps, var_info_ |-> var_info_,
    map_fixed_vars_ |-> map_fixed_vars_,
    auto_link_src_item_ |-> auto_link_src_item_,
    auto_link_targ_items_ |-> auto_link_targ_items_,
    links |-> links, err |-> err, ret |-> -1 ]

Commit(s) ==
  /\ var_lb' = s.var_lb
  /\ var_ub' = s.var_ub
  /\ var_type' = s.var_type
  /\ keepers' = s.keepers
  /\ maps' = s.maps
  /\ var_info_' = s.var_info_
  /\ map_fixed_vars_' = s.map_fixed_vars_
  /\ auto_link_src_item_' = s.auto_link_src_item_
  /\ auto_link_targ_items_' = s.auto_link_targ_items_
  /\ links' = s.links
  /\ err' = s.err

Ok(s) == s.err.kind = "none"

num_vars(s) == Len(s.var_lb)
lb(s, v) == s.var_lb[v + 1]
ub(s, v) == s.var_ub[v + 1]


(***************************************************************************)
(* Autolinking.                                                            *)
(***************************************************************************)
DoingAutoLinking(s) == IsValid(s.auto_link_src_item_)

\* NodeRange::TryExtendBy: a range of the same node starting where the last ends
CanExtendBy(back, nr) ==
  back.node = nr.node /\ nr.first = back.first + back.size

\* AutoLink that never extends the last target range
AutoLink_NoExtend(s, nr) ==
  [s EXCEPT !.auto_link_targ_items_ =
     IF DoingAutoLinking(s) THEN Append(@, nr) ELSE @]

AutoLink(s, nr) ==
  LET targ == s.auto_link_targ_items_
      n == Len(targ)
      t2 == IF ~DoingAutoLinking(s) THEN targ
            ELSE IF n = 0 \/ ~CanExtendBy(targ[n], nr)
                 THEN Append(targ, nr)
                 ELSE [targ EXCEPT ![n].size = targ[n].size + nr.size]
  IN [s EXCEPT !.auto_link_targ_items_ = t2]

TurnOffAutoLinking(s) ==
  [s EXCEPT !.auto_link_src_item_ = NoRange,
            !.auto_link_targ_items_ = << >>]

(***************************************************************************)
(* Variables.                                                              *)
(***************************************************************************)
\* FlatModel::AddVar__basic: appends one variable and returns its index
AddVar__basic(s, l, u, ty) ==
  [s EXCEPT !.var_lb = Append(@, l), !.var_ub = Append(@, u),
            !.var_type = Append(@, ty), !.ret = Len(s.var_lb)]

DoAddVar(s, l, u, ty) ==
  LET s1 == AddVar__basic(s, l, u, ty)
      v == s1.ret
  IN [AutoLink(s1, Range(VarNode, v, 1)) EXCEPT !.ret = v]

FixedVarsWith(s, value) == { e \in s.map_fixed_vars_ : e.value = value }

MakeFixedVar(s, value) ==
  IF FixedVarsWith(s, value) # {}
  THEN LET v == (CHOOSE e \in FixedVarsWith(s, value) : TRUE).var
       IN [AutoLink(s, Range(VarNode, v, 1)) EXCEPT !.ret = v]
  ELSE LET s1 == DoAddVar(s, value, value, CONTINUOUS)
           v == s1.ret
       IN [s1 EXCEPT !.map_fixed_vars_ =
                        { e \in @ : e.value # value }
                          \cup { [value |-> value, var |-> v] },
                     !.ret = v]

AddVar(s, l, u, ty) ==
  IF l # u THEN DoAddVar(s, l, u, ty) ELSE MakeFixedVar(s, l)

\* AddVars: the input model's variables, added once
AddVars(s, lbs, ubs, types) ==
  LET s1 == [s EXCEPT !.var_lb = @ \o lbs, !.var_ub = @ \o ubs,
                      !.var_type = @ \o types]
  IN AutoLink(s1, Range(VarNode, Len(s.var_lb), Len(lbs)))

set_var_lb(s, v, l) == [s EXCEPT !.var_lb[v + 1] = l]
set_var_ub(s, v, u) == [s EXCEPT !.var_ub[v + 1] = u]

\* NarrowVarBounds that looks at the new bounds before it stores them
NarrowVarBounds_CheckFirst(s, v, l, u) ==
  IF Max2(lb(s, v), l) > Min2(ub(s, v), u) THEN [s EXCEPT !.err = InfeasErr]
  ELSE set_var_ub(set_var_lb(s, v, Max2(lb(s, v), l)), v, Min2(ub(s, v), u))

NarrowVarBounds(s, v, l, u) ==
  LET s1 == set_var_lb(s, v, Max2(lb(s, v), l))
      s2 == set_var_ub(s1, v, Min2(ub(s1, v), u))
  IN IF lb(s2, v) > ub(s2, v) THEN [s2 EXCEPT !.err = InfeasErr] ELSE s2

(***************************************************************************)
(* Init expressions.                                                       *)
(***************************************************************************)
Resize(seq, n) ==
  IF Len(seq) >= n THEN seq
  ELSE seq \o [j \in 1..(n - Len(seq)) |-> NoConInfo]

AddInitExpression(s, v, ci) ==
  [s EXCEPT !.var_info_ = [Resize(@, v + 1) EXCEPT ![v + 1] = ci]]

ReplaceInitExpression(s, v, ci) ==
  [s EXCEPT !.var_info_[v + 1] = ci]

HasInitExpression(s, v) ==
  Len(s.var_info_) > v /\ HasId(s.var_info_[v + 1])

GetInitExpression(s, v) == s.var_info_[v + 1]

(***************************************************************************)
(* Context lattice None < Positive, Negative < Mixed.                      *)
(***************************************************************************)
MergeCtx(a, b) ==
  IF a = b THEN a
  ELSE IF a = CTX_NONE THEN b
  ELSE IF b = CTX_NONE THEN a
  ELSE CTX_MIX

FlipCtx(c) ==
  IF c = CTX_POS THEN CTX_NEG ELSE IF c = CTX_NEG THEN CTX_POS ELSE c

(***************************************************************************)
(* Keepers.  An item is the constraint (its body: coefficient c, argument  *)
(* variable v, constant k), its result variable (-1: none), its context,   *)
(* and whether it has been converted.                                      *)
(***************************************************************************)
Body(c, v, k) == [c |-> c, v |-> v, k |-> k]
Con(body, res) == [body |-> body, res |-> res, ctx |-> CTX_NONE]
Item(con) ==
  [body |-> con.body, res |-> con.res, ctx |-> con.ctx, bridged |-> FALSE]

GetConstraint(s, t, i) == s.keepers[t][i + 1]

\* ConstraintKeeper::AddConstraint: appends and returns the new index
KeeperAdd(s, t, con) ==
  [s EXCEPT !.keepers[t] = Append(@, Item(con)), !.ret = Len(s.keepers[t])]

SelectValueNodeRange(t, i) == Range(t, i, 1)

\* Structural equality of constraints of one type: the bodies agree
ConKey(con) == con.body

\* MapFind__Impl that never finds
MapFind__Impl_Miss(s, t, con) == -1

MapFind__Impl(s, t, con) ==
  LET hits == { e \in s.maps[t] : e.key = ConKey(con) }
  IN IF hits # {} THEN (CHOOSE e \in hits : TRUE).idx ELSE -1

MapFind(s, t, con) ==
  IF t \in MappedTypes THEN MapFind__Impl(s, t, con) ELSE -1

\* MapInsert__Impl that stores the pair without looking for the key
MapInsert__Impl_Unchecked(s, t, con, i) ==
  [s EXCEPT !.maps[t] = @ \cup { [key |-> ConKey(con), idx |-> i] },
            !.ret = 1]

\* the map after insert( {con, i} ): unchanged when the key is present
MapInsert__Impl(s, t, con, i) ==
  IF \E e \in s.maps[t] : e.key = ConKey(con)
  THEN [s EXCEPT !.ret = 0]
  ELSE [s EXCEPT !.maps[t] = @ \cup { [key |-> ConKey(con), idx |-> i] },
                 !.ret = 1]

\* MapInsert that looks a constraint of a type without map up in its keeper
MapInsert_KeeperChecked(s, t, con, i) ==
  IF t \in MappedTypes THEN MapInsert__Impl(s, t, con, i)
  ELSE [s EXCEPT !.ret =
          IF \E j \in 1..Len(s.keepers[t]) :
               j # i + 1 /\ s.keepers[t][j].body = con.body
          THEN 0 ELSE 1]

MapInsert(s, t, con, i) ==
  IF t \in MappedTypes THEN MapInsert__Impl(s, t, con, i)
  ELSE [s EXCEPT !.ret = 1]

\* AddConstraintAndTryNoteResultVariable that ignores what MapInsert returns
AddConstraintAndTryNoteResultVariable_Unchecked(s, t, con) ==
  LET resvar == con.res
      s1 == KeeperAdd(s, t, con)
      i == s1.ret
      s2 == IF resvar >= 0 THEN AddInitExpression(s1, resvar, ConInfo(t, i))
            ELSE s1
      s3 == MapInsert(s2, t, GetConstraint(s2, t, i), i)
  IN [s3 EXCEPT !.ret = i]

AddConstraintAndTryNoteResultVariable(s, t, con) ==
  LET resvar == con.res
      s1 == KeeperAdd(s, t, con)
      i == s1.ret
      s2 == IF resvar >= 0 THEN AddInitExpression(s1, resvar, ConInfo(t, i))
            ELSE s1
      s3 == MapInsert(s2, t, GetConstraint(s2, t, i), i)
  IN IF s3.ret = 0
     THEN [s3 EXCEPT !.err = RaiseErr("MapInsertDuplicate", t), !.ret = -1]
     ELSE [s3 EXCEPT !.ret = i]

\* AddConstraint: returns the index of the node range of the new item
AddConstraint(s, t, con) ==
  LET s1 == AddConstraintAndTryNoteResultVariable(s, t, con)
  IN IF ~Ok(s1) THEN s1
     ELSE [AutoLink(s1, SelectValueNodeRange(t, s1.ret)) EXCEPT !.ret = s1.ret]

\* RedefineVariable that forgets fc.SetResultVar(res_var)
RedefineVariable_NoSetResultVar(s, res_var, t, fc) ==
  LET s1 == AddConstraint(s, t, fc)
  IN IF ~Ok(s1) THEN s1
     ELSE ReplaceInitExpression(s1, res_var, ConInfo(t, s1.ret))

RedefineVariable(s, res_var, t, fc) ==
  LET s1 == AddConstraint(s, t, [fc EXCEPT !.res = res_var])
  IN IF ~Ok(s1) THEN s1
     ELSE ReplaceInitExpression(s1, res_var, ConInfo(t, s1.ret))

(***************************************************************************)
(* Bound and context propagation.                                          *)
(***************************************************************************)
\* 1 - x on the extended reals
Compl(x) ==
  IF x = Infty THEN MinusInfty ELSE IF x = MinusInfty THEN Infty ELSE 1 - x

RECURSIVE PropagateResultOfInitExpr(_, _, _, _, _, _)

\* a PropagateResult that overwrites the context of item i
PropagateResult_Overwrite(s, t, i, l, u, ctx, fuel) ==
  LET a == GetConstraint(s, t, i).body.v
      s1 == [s EXCEPT !.keepers[t][i + 1].ctx = ctx]
  IN IF fuel = 0 \/ a < 0 \/ a >= num_vars(s) THEN s1
     ELSE IF t = "NotConstraint"
          THEN PropagateResultOfInitExpr(s1, a, Compl(u), Compl(l),
                                         FlipCtx(ctx), fuel - 1)
          ELSE PropagateResultOfInitExpr(s1, a, lb(s1, a), ub(s1, a),
                                         CTX_MIX, fuel - 1)

\* ConstraintKeeper::PropagateResult: merges the context into item i and
\* propagates to the argument variable; `fuel` bounds the depth.
PropagateResult(s, t, i, l, u, ctx, fuel) ==
  LET a == GetConstraint(s, t, i).body.v
      s1 == [s EXCEPT !.keepers[t][i + 1].ctx = MergeCtx(@, ctx)]
  IN IF fuel = 0 \/ a < 0 \/ a >= num_vars(s) THEN s1
     ELSE IF t = "NotConstraint"
          THEN PropagateResultOfInitExpr(s1, a, Compl(u), Compl(l),
                                         FlipCtx(ctx), fuel - 1)
          ELSE PropagateResultOfInitExpr(s1, a, lb(s1, a), ub(s1, a),
                                         CTX_MIX, fuel - 1)

PropagateResultOfInitExpr(s, v, l, u, ctx, fuel) ==
  LET s1 == NarrowVarBounds(s, v, l, u)
  IN IF ~Ok(s1) THEN s1
     ELSE IF HasInitExpression(s1, v)
          THEN LET ckid == GetInitExpression(s1, v)
               IN PropagateResult(s1, ckid.ck, ckid.idx, l, u, ctx, fuel)
          ELSE s1

\* the overload without bounds: PropagateResultOfInitExpr(var, lb(var), ub(var), ctx)
PropagateCtxOfInitExpr(s, v, ctx) ==
  PropagateResultOfInitExpr(s, v, lb(s, v), ub(s, v), ctx, num_vars(s))

\* a FixAsTrue that propagates the negative context
FixAsTrue_Negative(s, resvar) ==
  PropagateResultOfInitExpr(s, resvar, 1, 1, CTX_NEG, num_vars(s))

FixAsTrue(s, resvar) ==
  PropagateResultOfInitExpr(s, resvar, 1, 1, CTX_POS, num_vars(s))

set_var_lb_context(s, v, l, ctx) ==
  PropagateCtxOfInitExpr(set_var_lb(s, v, l), v, ctx)

set_var_ub_context(s, v, u, ctx) ==
  PropagateCtxOfInitExpr(set_var_ub(s, v, u), v, ctx)

set_var_bounds_context(s, v, l, u, ctx) ==
  PropagateCtxOfInitExpr(set_var_ub(set_var_lb(s, v, l), v, u), v, ctx)

(***************************************************************************)
(* AssignResult2Args (the functional-constraint converter).                *)
(***************************************************************************)
\* a body with no variable term is a constant
IsConstantBody(body) ==
  body.c = 0 /\ ("q" \in DOMAIN body => body.q = 0)

\* ComputeBoundsAndType: bounds deduced for the result variable
ResultBounds(s, t, body) ==
  IF t = "NotConstraint" /\ body.v >= 0 /\ body.v < num_vars(s)
  THEN << Compl(ub(s, body.v)), Compl(lb(s, body.v)) >>
  ELSE << MinusInfty, Infty >>

\* returns the result variable in ret; isconst tells a folded constant
AssignResult2Args(s, t, fc) ==
  IF IsConstantBody(fc.body)
  THEN [s EXCEPT !.ret = fc.body.k]
  ELSE LET i == MapFind(s, t, fc)
       IN IF i >= 0
          THEN [s EXCEPT !.ret = GetConstraint(s, t, i).res]
          ELSE LET b == ResultBounds(s, t, fc.body)
                   s1 == DoAddVar(s, b[1], b[2], CONTINUOUS)
                   r == s1.ret
                   s2 == AddConstraint(s1, t, [fc EXCEPT !.res = r])
               IN [s2 EXCEPT !.ret = r]

AssignResultVar2Args(s, t, fc) ==
  LET vc == AssignResult2Args(s, t, fc)
  IN IF IsConstantBody(fc.body) THEN MakeFixedVar(vc, vc.ret) ELSE vc

(***************************************************************************)
(* State after construction, and what every operation records.             *)
(***************************************************************************)
NoLast ==
  [op |-> "", t |-> "", a |-> -1, b |-> -1, c |-> -1, ret |-> -1,
   nv0 |-> 0, nc0 |-> 0, hit |-> -1]

\* the record of one call: operation, type, arguments, result, and what the
\* converter held before it (variables, items of the keeper, cache/map hit)
LastRec(op, t, a, b, c, ret, hit) ==
  [op |-> op, t |-> t, a |-> a, b |-> b, c |-> c, ret |-> ret,
   nv0 |-> Len(var_lb),
   nc0 |-> IF t \in Types THEN Len(keepers[t]) ELSE 0,
   hit |-> hit]

NoCvt == [k |-> 0, i |-> 0, any |-> FALSE, passes |-> 0, work |-> 0]

\* struct Options: the defaults of the preprocess flags
Options ==
  [preprocessAnything_ |-> 1,
   preprocessEqualityResultBounds_ |-> 1,
   preprocessEqualityBvar_ |-> 1]

\* the application before Run: no signal seen, no handler set, not solved;
\* calls counts the HandleFeasibleSolution calls made and steps lists the
\* steps Run has entered (history); rows, objsen, obj are the CPLEX model;
\* interrupts counts the calls of InterruptCplex (history)
NoBackend ==
  [pc |-> "start", stop_ |-> 0, handler_ |-> FALSE, terminate_flag |-> 0,
   optimstatus |-> "", solcount |-> 0, status |-> << "", "" >>, ret |-> -1,
   solution_stub_ |-> "", count_solutions_ |-> FALSE, num_solutions_ |-> 0,
   files |-> << >>, nsol |-> -1, written |-> FALSE, calls |-> 0,
   wantsol_ |-> 0, objno_ |-> -1, value |-> 0, int_value |-> 0,
   steps |-> << >>, rows |-> << >>, objsen |-> "CPX_MIN", obj |-> << 0, 0 >>,
   interrupts |-> 0]

InitConverter ==
  /\ options_ = Options
  /\ backend = NoBackend
  /\ var_lb = << >>
  /\ var_ub = << >>
  /\ var_type = << >>
  /\ keepers = [t \in Types |-> << >>]
  /\ maps = [t \in MappedTypes |-> {}]
  /\ var_info_ = << >>
  /\ map_fixed_vars_ = {}
  /\ auto_link_src_item_ = NoRange
  /\ auto_link_targ_items_ = << >>
  /\ links = << >>
  /\ err = NoErr
  /\ phase = "input"
  /\ cvt = NoCvt
  /\ api = << >>
  /\ last = NoLast
  /\ visited = {}
  /\ declared = << << >>, << >> >>

\* an operation on the converter: its effect, its record, and the abort on error
Call(s, rec) ==
  /\ Commit(s)
  /\ last' = rec
  /\ phase' = IF Ok(s) THEN phase ELSE "error"
  /\ UNCHANGED << acc, relax_, options_, backend, cvt, api, visited, declared >>

VarIds == 0..(Len(var_lb) - 1)

(***************************************************************************)
(* Operations on variables and bounds, as the flattener and the            *)
(* conversions call them.                                                  *)
(***************************************************************************)
OpAddVars ==
  /\ phase = "input"
  /\ Len(var_lb) = 0
  /\ \E n \in 1..2 :
       \E lbs \in [1..n -> Bnds], ubs \in [1..n -> Bnds] :
         Call(AddVars(Cur, lbs, ubs, [j \in 1..n |-> CONTINUOUS]),
              LastRec("AddVars", "", n, -1, -1, 0, -1))

OpDoAddVar ==
  /\ phase = "input"
  /\ Len(var_lb) < MaxBndVars
  /\ \E l \in Bnds, u \in Bnds :
       LET s == DoAddVar(Cur, l, u, CONTINUOUS)
       IN Call(s, LastRec("DoAddVar", "", l, u, -1, s.ret, -1))

CacheHit(value) ==
  IF FixedVarsWith(Cur, value) # {}
  THEN (CHOOSE e \in FixedVarsWith(Cur, value) : TRUE).var ELSE -1

OpAddVar ==
  /\ phase = "input"
  /\ \E l \in Vals, u \in Vals :
       /\ Len(var_lb) < MaxBndVars \/ (l = u /\ CacheHit(l) >= 0)
       /\ LET s == AddVar(Cur, l, u, CONTINUOUS)
          IN Call(s, LastRec("AddVar", "", l, u, -1, s.ret, CacheHit(l)))

OpMakeFixedVar ==
  /\ phase = "input"
  /\ \E value \in Vals :
       /\ Len(var_lb) < MaxBndVars \/ CacheHit(value) >= 0
       /\ LET s == MakeFixedVar(Cur, value)
          IN Call(s, LastRec("MakeFixedVar", "", value, value, -1, s.ret,
                             CacheHit(value)))

Op_set_var_lb ==
  /\ phase = "input"
  /\ \E v \in VarIds, l \in Vals :
       Call(set_var_lb(Cur, v, l), LastRec("set_var_lb", "", -1, -1, -1, -1, -1))

Op_set_var_ub ==
  /\ phase = "input"
  /\ \E v \in VarIds, u \in Vals :
       Call(set_var_ub(Cur, v, u), LastRec("set_var_ub", "", -1, -1, -1, -1, -1))

Op_set_var_lb_context ==
  /\ phase = "input"
  /\ \E v \in VarIds, l \in Vals, ctx \in {CTX_POS, CTX_NEG} :
       Call(set_var_lb_context(Cur, v, l, ctx),
            LastRec("set_var_lb_context", "", -1, -1, -1, -1, -1))

Op_set_var_ub_context ==
  /\ phase = "input"
  /\ \E v \in VarIds, u \in Vals, ctx \in {CTX_POS, CTX_NEG} :
       Call(set_var_ub_context(Cur, v, u, ctx),
            LastRec("set_var_ub_context", "", -1, -1, -1, -1, -1))

Op_set_var_bounds_context ==
  /\ phase = "input"
  /\ \E v \in VarIds, l \in Vals, u \in Vals, ctx \in {CTX_POS, CTX_NEG} :
       Call(set_var_bounds_context(Cur, v, l, u, ctx),
            LastRec("set_var_bounds_context", "", -1, -1, -1, -1, -1))

OpNarrowVarBounds ==
  /\ phase = "input"
  /\ \E v \in VarIds, l \in LoBnds, u \in UpBnds :
       Call(NarrowVarBounds(Cur, v, l, u),
            LastRec("NarrowVarBounds", "", v, l, u, -1, -1))

OpPropagateResultOfInitExpr ==
  /\ phase = "input"
  /\ \E v \in VarIds, l \in LoBnds, u \in UpBnds, ctx \in {CTX_POS, CTX_NEG} :
       Call(PropagateResultOfInitExpr(Cur, v, l, u, ctx, Len(var_lb)),
            LastRec("PropagateResultOfInitExpr", "", -1, -1, -1, -1, -1))

OpFixAsTrue ==
  /\ phase = "input"
  /\ \E v \in VarIds :
       Call(FixAsTrue(Cur, v), LastRec("FixAsTrue", "", v, 1, 1, -1, -1))

\* a reified Not over an existing variable, so that variables carry init expressions
OpAssignNot ==
  /\ phase = "input"
  /\ Len(var_lb) < MaxBndVars
  /\ Len(keepers["NotConstraint"]) < MaxItems
  /\ \E a \in VarIds :
       LET fc == Con(Body(1, a, 0), -1)
           s == AssignResultVar2Args(Cur, "NotConstraint", fc)
       IN Call(s, LastRec("AssignResult2Args", "NotConstraint", a, -1, -1,
                          s.ret, MapFind(Cur, "NotConstraint", fc)))

InitBnd == InitConverter /\ acc = [t \in Types |-> Recommended] /\ relax_ = 0

NextBnd ==
  \/ OpAddVars
  \/ OpDoAddVar
  \/ Op_set_var_lb
  \/ Op_set_var_ub
  \/ Op_set_var_lb_context
  \/ Op_set_var_ub_context
  \/ Op_set_var_bounds_context
  \/ OpNarrowVarBounds
  \/ OpPropagateResultOfInitExpr
  \/ OpFixAsTrue
  \/ OpAssignNot

SpecBnd == InitBnd /\ [][NextBnd]_vars

(***************************************************************************)
(* The fixed-value cache with the operations that read or write bounds.    *)
(***************************************************************************)
NextFix ==
  \/ OpMakeFixedVar
  \/ OpAddVar
  \/ OpDoAddVar
  \/ Op_set_var_lb
  \/ Op_set_var_ub
  \/ Op_set_var_bounds_context
  \/ OpNarrowVarBounds

SpecFix == InitBnd /\ [][NextFix]_vars


(***************************************************************************)
(* Adding, finding and redefining constraints: AddConstraint,              *)
(* AssignResult2Args and RedefineVariable in any order.                    *)
(***************************************************************************)
RECURSIVE SumLen(_, _)
SumLen(ks, n) == IF n = 0 THEN 0 ELSE Len(ks[RegOrder[n]]) + SumLen(ks, n - 1)
NumItems == SumLen(keepers, Len(RegOrder))

AddTypes == {"LinConLE", "LinearFunctionalConstraint", "NotConstraint"}

\* the input model's variables: binaries
OpAddBinVars ==
  /\ phase = "input"
  /\ Len(var_lb) = 0
  /\ \E n \in 1..2 :
       Call(AddVars(Cur, [j \in 1..n |-> 0], [j \in 1..n |-> 1],
                    [j \in 1..n |-> INTEGER]),
            LastRec("AddVars", "", n, -1, -1, 0, -1))

OpAddConstraint ==
  /\ phase = "input"
  /\ NumItems < MaxAdd
  /\ \E t \in AddTypes, a \in VarIds, r \in VarIds \cup {-1} :
       /\ (r = -1) = (t \notin MappedTypes)
       /\ LET con == Con(Body(1, a, 0), r)
              s == AddConstraint(Cur, t, con)
          IN Call(s, LastRec("AddConstraint", t, a, r, 1, s.ret,
                             MapFind(Cur, t, con)))

OpAssignResult2Args ==
  /\ phase = "input"
  /\ \E t \in AddTypes \cap MappedTypes, a \in VarIds, c \in {0, 1} :
       LET fc == Con(Body(c, IF c = 0 THEN -1 ELSE a, 1 - c), -1)
           hit == MapFind(Cur, t, fc)
           s == AssignResultVar2Args(Cur, t, fc)
       IN /\ c = 0 => a = 0
          /\ IF c = 0 THEN Len(var_lb) < MaxVars \/ CacheHit(fc.body.k) >= 0
             ELSE hit >= 0 \/ (Len(var_lb) < MaxVars /\ NumItems < MaxAdd)
          /\ Call(s, LastRec("AssignResult2Args", t, fc.body.v, -1, c,
                             s.ret, hit))

OpRedefineVariable ==
  /\ phase = "input"
  /\ NumItems < MaxAdd
  /\ \E v \in VarIds, t \in AddTypes \cap MappedTypes, a \in VarIds :
       /\ HasInitExpression(Cur, v)
       /\ LET fc == Con(Body(1, a, 0), -1)
              s == RedefineVariable(Cur, v, t, fc)
          IN Call(s, LastRec("RedefineVariable", t, a, v, 1, -1,
                             MapFind(Cur, t, fc)))

NextAdd ==
  \/ OpAddBinVars
  \/ OpAddConstraint
  \/ OpAssignResult2Args
  \/ OpRedefineVariable

SpecAdd == InitBnd /\ [][NextAdd]_vars


(***************************************************************************)
(* Properties of the add/find operations (checked under SpecAdd).          *)
(***************************************************************************)
LiveIdx(t) == { i \in 0..(Len(keepers[t]) - 1) : ~keepers[t][i + 1].bridged }

DedupHolds ==
  \A t \in MappedTypes :
    /\ \A i \in LiveIdx(t), j \in LiveIdx(t) :
         i # j => keepers[t][i + 1].body # keepers[t][j + 1].body
    /\ \A i \in LiveIdx(t) :
         /\ Cardinality({ e \in maps[t] : e.idx = i }) = 1
         /\ \A e \in maps[t] : e.idx = i => e.key = keepers[t][i + 1].body

C5_AssignResultIdempotent ==
  (last.op = "AssignResult2Args" /\ last.c # 0) =>
    LET t == last.t
        fc == Con(Body(1, last.a, 0), -1)
        same == { i \in 0..(Len(keepers[t]) - 1) :
                    keepers[t][i + 1].body = fc.body }
    IN /\ err.kind = "none"
       /\ IF last.hit >= 0
          THEN /\ last.ret = keepers[t][last.hit + 1].res
               /\ Len(var_lb) = last.nv0
               /\ Len(keepers[t]) = last.nc0
          ELSE /\ last.ret = last.nv0
               /\ Len(var_lb) = last.nv0 + 1
               /\ Len(keepers[t]) = last.nc0 + 1
               /\ keepers[t][last.nc0 + 1].body = fc.body
               /\ keepers[t][last.nc0 + 1].res = last.ret
       /\ Cardinality(same) = 1
       /\ AssignResult2Args(Cur, t, fc) = [Cur EXCEPT !.ret = last.ret]

\* C5 witness: a second call with an equal fc hit the map and returned the
\* variable the first call allocated.
C5_Witness ==
  /\ last.op = "AssignResult2Args"
  /\ last.c # 0
  /\ last.hit >= 0
  /\ last.ret >= 0
  /\ keepers[last.t][last.hit + 1].res = last.ret

\* C10: every variable v with an init expression (k, i) is the result
\* variable of the constraint k.Get(i), in every reachable state.
C10_InitExprPointsToResult ==
  \A v \in 0..(Len(var_info_) - 1) :
    HasInitExpression(Cur, v) =>
      LET ci == GetInitExpression(Cur, v)
      IN /\ ci.ck \in Types
         /\ ci.idx >= 0
         /\ ci.idx < Len(keepers[ci.ck])
         /\ keepers[ci.ck][ci.idx + 1].res = v

\* C10 witness: RedefineVariable has replaced the init expression of a
\* variable by a constraint stored after its first definition.
C10_Witness ==
  /\ last.op = "RedefineVariable"
  /\ err.kind = "none"
  /\ HasInitExpression(Cur, last.b)
  /\ GetInitExpression(Cur, last.b).idx = Len(keepers[last.t]) - 1
  /\ NumItems >= 2


(***************************************************************************)
(* Properties of the fixed-value cache (checked under SpecFix).            *)
(***************************************************************************)
\* a call that asks for a fixed variable: MakeFixedVar(c) or AddVar(c, c)
IsFixedVarCall(rec) ==
  rec.op = "MakeFixedVar" \/ (rec.op = "AddVar" /\ rec.a = rec.b)

\* C6: every MakeFixedVar(c) and every AddVar(c, c) returns the one cached
\* variable of c (creating it only when c is not cached yet), the cache holds
\* at most one variable per value, and every cached entry value -> v has
\* lb(v) = ub(v) = value in every reachable state in which no error is raised.
C6_FixedCacheCanonical ==
  /\ \A e \in map_fixed_vars_, f \in map_fixed_vars_ :
       e.value = f.value => e.var = f.var
  /\ IsFixedVarCall(last) =>
       /\ [value |-> last.a, var |-> last.ret] \in map_fixed_vars_
       /\ IF last.hit >= 0
          THEN last.ret = last.hit /\ Len(var_lb) = last.nv0
          ELSE last.ret = last.nv0 /\ Len(var_lb) = last.nv0 + 1
  /\ err.kind = "none" =>
       \A e \in map_fixed_vars_ :
         var_lb[e.var + 1] = e.value /\ var_ub[e.var + 1] = e.value

(***************************************************************************)
(* Properties of the bounds (checked under SpecBnd).                       *)
(***************************************************************************)
\* C7: for every variable, lb never decreases and ub never increases,
\* whatever bound operation is called.
C7_BoundsMonotone ==
  [][\A v \in VarIds :
       /\ var_lb'[v + 1] >= var_lb[v + 1]
       /\ var_ub'[v + 1] <= var_ub[v + 1]]_vars

\* C8: every variable has lb <= ub in every reachable state in which no error
\* has been raised (a bound change that produces lb > ub raises the
\* infeasible-domain error).
C8_DomainNonEmptyUnlessError ==
  err.kind = "none" => \A v \in VarIds : var_lb[v + 1] <= var_ub[v + 1]


(***************************************************************************)
(* The conversions of single items.                                        *)
(***************************************************************************)
\* Convert for a type without an overload, re-adding the item instead of raising
Convert_Readd(s, t, con) == AddConstraint(s, t, Con(con.body, con.res))

\* the default Convert: no conversion is implemented for the type
\* ModelAPI::GetTypeName()
ModelAPI_GetTypeName == "ModelAPI"

\* the message of the default Convert, as the pieces it concatenates
NoConversionMessage(t) ==
  << "Constraint type '", t, "' is neither accepted by '",
     ModelAPI_GetTypeName, "', not is conversion implemented" >>

\* a default Convert whose message leaves out the constraint type
Convert_Default_NoTypeName(s, t, con) ==
  [s EXCEPT !.err =
     RaiseErr("NoConversion",
              << "Constraint type is neither accepted by '",
                 ModelAPI_GetTypeName, "', not is conversion implemented" >>)]

Convert_Default(s, t, con) ==
  [s EXCEPT !.err = RaiseErr("NoConversion", NoConversionMessage(t))]

\* Convert(LinearFunctionalConstraint): AddConstraint(ldc.to_linear_constraint())
Convert_LFC(s, ldc) == AddConstraint(s, "LinConEQ", Con(ldc.body, -1))

\* Convert(QuadraticFunctionalConstraint): qdc.AddQuadraticConstraint(*this)
Convert_QFC(s, qdc) == AddConstraint(s, "QuadConEQ", Con(qdc.body, -1))

\* RangeLinearConstraintConverter: the range split into <= and >=
Convert_Range(s, con) ==
  LET s1 == AddConstraint(s, "LinConLE", Con(con.body, -1))
  IN IF ~Ok(s1) THEN s1
     ELSE AddConstraint(s1, "LinConGE", Con(con.body, -1))

\* Not(x) -> 1 - x: the result variable is redefined by a linear expression
Convert_Not(s, nc) ==
  RedefineVariable(s, nc.res, "LinearFunctionalConstraint",
                   Con(Body(-1, nc.body.v, 1), -1))

\* MP_DISPATCH( Convert(con, i) ): the overload of the item's type
Convert(s, t, i) ==
  LET con == GetConstraint(s, t, i)
  IN CASE t = "LinearFunctionalConstraint" -> Convert_LFC(s, con)
       [] t = "QuadraticFunctionalConstraint" -> Convert_QFC(s, con)
       [] t = "LinConRange" -> Convert_Range(s, con)
       [] t = "NotConstraint" -> Convert_Not(s, con)
       [] OTHER -> Convert_Default(s, t, con)

\* functional constraints carry a context
UsesContext(t) == t \in MappedTypes

\* AutoLinkScope: entering sets the source, leaving records the link
\* (Copy if one-to-one, One2Many otherwise) and turns autolinking off
EnterAutoLinkScope(s, src) ==
  [s EXCEPT !.auto_link_src_item_ = src, !.auto_link_targ_items_ = << >>]

LeaveAutoLinkScope(s) ==
  LET targ == s.auto_link_targ_items_
      kind == IF Len(targ) = 1 /\ targ[1].size = 1 THEN "Copy" ELSE "One2Many"
      s1 == IF Len(targ) = 0 THEN s
            ELSE [s EXCEPT !.links =
                     Append(@, [kind |-> kind, src |-> s.auto_link_src_item_,
                                targs |-> targ])]
  IN TurnOffAutoLinking(s1)

\* a first step that sets the mixed context whether or not the constraint
\* uses context
EnsureContext_AnyType(s, t, i) ==
  IF GetConstraint(s, t, i).ctx = CTX_NONE
  THEN [s EXCEPT !.keepers[t][i + 1].ctx = CTX_MIX]
  ELSE s

\* the first step of RunConversion: mixed context if none is set
EnsureContext(s, t, i) ==
  IF UsesContext(t) /\ GetConstraint(s, t, i).ctx = CTX_NONE
  THEN [s EXCEPT !.keepers[t][i + 1].ctx = CTX_MIX]
  ELSE s

RunConversion(s, t, i) ==
  LET s1 == EnsureContext(s, t, i)
      s2 == EnterAutoLinkScope(s1, SelectValueNodeRange(t, i))
  IN LeaveAutoLinkScope(Convert(s2, t, i))

\* an IfNeedsCvt_impl that asks for the conversion of every item
IfNeedsCvt_impl_Always(con, i) == TRUE

\* IfNeedsCvt_impl: by default no accepted item needs conversion
IfNeedsCvt_impl(con, i) == FALSE
IfNeedsConversion(con, i) == IfNeedsCvt_impl(con, i)

\* whether the keeper's loop converts item i (0-based) of type t
NeedsConversion(ks, t, i) ==
  /\ ~ks[t][i + 1].bridged
  /\ acc[t] = NotAccepted \/ IfNeedsConversion(ks[t][i + 1], i)

\* the keeper converts item i: RunConversion, then the item is marked converted
ConvertConstraint(s, t, i) ==
  LET s1 == RunConversion(s, t, i)
  IN IF ~Ok(s1) THEN s1 ELSE [s1 EXCEPT !.keepers[t][i + 1].bridged = TRUE]


(***************************************************************************)
(* The conversion loop.  ConvertItems calls ConvertAllConstraints once;    *)
(* the model then passes over the keepers in registration order, each      *)
(* keeper over its items up to its current size, until a pass converts     *)
(* nothing.  cvt = (k, i) is the position of the loop: keeper RegOrder[k],  *)
(* item i.                                                                 *)
(***************************************************************************)
NoPos == << 0, 0 >>

RECURSIVE FindNext(_, _, _)
\* the first item at or after (k, i) that the loop converts, or NoPos
FindNext(ks, k, i) ==
  IF k > Len(RegOrder) THEN NoPos
  ELSE IF i >= Len(ks[RegOrder[k]]) THEN FindNext(ks, k + 1, 0)
  ELSE IF NeedsConversion(ks, RegOrder[k], i) THEN << k, i >>
  ELSE FindNext(ks, k, i + 1)

\* position (k1, i1) is before (k2, i2) in the order of the loop
PosBefore(k1, i1, k2, i2) == k1 < k2 \/ (k1 = k2 /\ i1 < i2)

\* items the loop reaches going from the position of cvt to `to` (inclusive),
\* or to the end of the pass when `to` is NoPos
Reached(to) ==
  { p \in UNION { { << RegIndex(t), i >> : i \in 0..(Len(keepers[t]) - 1) }
                  : t \in Types } :
      /\ ~PosBefore(p[1], p[2], cvt.k, cvt.i)
      /\ to = NoPos \/ ~PosBefore(to[1], to[2], p[1], p[2]) }

\* the record of the first time the loop reaches an item
FirstVisits(ps) ==
  { [t |-> RegOrder[p[1]], i |-> p[2], pass |-> cvt.passes] : p \in
      { q \in ps : ~\E r \in visited : r.t = RegOrder[q[1]] /\ r.i = q[2] } }

\* FinishModelInput that does not call ConvertModel
OpFinishModelInput_NoConvertModel ==
  /\ phase = "input"
  /\ phase' = "converted"
  /\ cvt' = [NoCvt EXCEPT !.k = 1, !.passes = 1]
  /\ last' = LastRec("FinishModelInput", "", -1, -1, -1, -1, -1)
  /\ UNCHANGED << var_lb, var_ub, var_type, keepers, maps, var_info_,
                  map_fixed_vars_, auto_link_src_item_,
                  auto_link_targ_items_, links, acc, relax_, options_, backend, err, api,
                  visited, declared >>

\* FinishModelInput -> ConvertModel -> ConvertItems: the loop starts
OpFinishModelInput ==
  /\ phase = "input"
  /\ phase' = "convert"
  /\ cvt' = [NoCvt EXCEPT !.k = 1, !.passes = 1]
  /\ last' = LastRec("FinishModelInput", "", -1, -1, -1, -1, -1)
  /\ UNCHANGED << var_lb, var_ub, var_type, keepers, maps, var_info_,
                  map_fixed_vars_, auto_link_src_item_,
                  auto_link_targ_items_, links, acc, relax_, options_, backend, err, api,
                  visited, declared >>

\* a loop that converts any item that needs conversion, in no order
OpRunConversion_AnyOrder ==
  /\ phase = "convert"
  /\ \A t \in Types : Len(keepers[t]) < MaxItems
  /\ \E t \in Types :
       \E i \in 0..(Len(keepers[t]) - 1) :
         /\ NeedsConversion(keepers, t, i)
         /\ LET s == ConvertConstraint(Cur, t, i)
            IN /\ Commit(s)
               /\ phase' = IF Ok(s) THEN "convert" ELSE "error"
               /\ last' = LastRec("RunConversion", t, i, -1, -1, -1, -1)
         /\ visited' = visited
         /\ cvt' = [cvt EXCEPT !.any = TRUE]
  /\ UNCHANGED << acc, relax_, options_, backend, api, declared >>

\* the loop reaches the next item that needs conversion and converts it
OpRunConversion ==
  /\ phase = "convert"
  /\ \A t \in Types : Len(keepers[t]) < MaxItems
  /\ LET to == FindNext(keepers, cvt.k, cvt.i)
     IN /\ to # NoPos
        /\ LET t == RegOrder[to[1]]
               s == ConvertConstraint(Cur, t, to[2])
           IN /\ Commit(s)
              /\ phase' = IF Ok(s) THEN "convert" ELSE "error"
              /\ last' = LastRec("RunConversion", t, to[2], -1, -1, -1, -1)
        /\ visited' = visited \cup FirstVisits(Reached(to))
        /\ cvt' = [cvt EXCEPT !.k = to[1], !.i = to[2] + 1, !.any = TRUE,
                              !.work = IF cvt.any THEN @ ELSE @ + 1]
  /\ UNCHANGED << acc, relax_, options_, backend, api, declared >>

\* the pass ends: another pass if this one converted an item, else the loop ends
OpEndOfPass ==
  /\ phase = "convert"
  /\ FindNext(keepers, cvt.k, cvt.i) = NoPos
  /\ visited' = visited \cup FirstVisits(Reached(NoPos))
  /\ IF cvt.any
     THEN /\ cvt' = [cvt EXCEPT !.k = 1, !.i = 0, !.any = FALSE,
                                !.passes = @ + 1]
          /\ phase' = "convert"
     ELSE /\ cvt' = cvt
          /\ phase' = "converted"
  /\ last' = LastRec("EndOfPass", "", -1, -1, -1, -1, -1)
  /\ UNCHANGED << var_lb, var_ub, var_type, keepers, maps, var_info_,
                  map_fixed_vars_, auto_link_src_item_,
                  auto_link_targ_items_, links, acc, relax_, options_, backend, err, api,
                  declared >>

(***************************************************************************)
(* After the conversion: RelaxIntegrality if relax(), then PushModelTo.    *)
(***************************************************************************)
RelaxIntegrality(types) == [j \in 1..Len(types) |-> CONTINUOUS]

RECURSIVE PushItems(_, _, _)
\* the AddConstraint calls for the items of keepers k.., not converted, in order
PushItems(ks, k, i) ==
  IF k > Len(RegOrder) THEN << >>
  ELSE IF i >= Len(ks[RegOrder[k]]) THEN PushItems(ks, k + 1, 0)
  ELSE IF ks[RegOrder[k]][i + 1].bridged THEN PushItems(ks, k, i + 1)
  ELSE << [op |-> "AddConstraint", t |-> RegOrder[k], i |-> i] >>
         \o PushItems(ks, k, i + 1)

PushModelTo(lbs, ubs, types, ks) ==
  << [op |-> "InitProblemModificationPhase", t |-> "", i |-> -1] >>
    \o << [op |-> "AddVariables", t |-> "", i |-> Len(lbs),
            lbs |-> lbs, ubs |-> ubs, types |-> types] >>
    \o PushItems(ks, 1, 0)
    \o << [op |-> "FinishProblemModificationPhase", t |-> "", i |-> -1] >>

\* FinishModelInput that pushes the model before relaxing integrality
OpPushModel_PushBeforeRelax ==
  /\ phase = "converted"
  /\ api' = api \o PushModelTo(var_lb, var_ub, var_type, keepers)
  /\ var_type' = IF relax_ = 1 THEN RelaxIntegrality(var_type) ELSE var_type
  /\ phase' = "done"
  /\ last' = LastRec("PushModelTo", "", -1, -1, -1, -1, -1)
  /\ UNCHANGED << var_lb, var_ub, keepers, maps, var_info_, map_fixed_vars_,
                  auto_link_src_item_, auto_link_targ_items_, links, acc,
                  relax_, options_, backend, err, cvt, visited, declared >>

\* FinishModelInput that does not look at relax()
OpPushModel_NoRelax ==
  /\ phase = "converted"
  /\ var_type' = var_type
  /\ api' = api \o PushModelTo(var_lb, var_ub, var_type', keepers)
  /\ phase' = "done"
  /\ last' = LastRec("PushModelTo", "", -1, -1, -1, -1, -1)
  /\ UNCHANGED << var_lb, var_ub, keepers, maps, var_info_, map_fixed_vars_,
                  auto_link_src_item_, auto_link_targ_items_, links, acc,
                  relax_, options_, backend, err, cvt, visited, declared >>

OpPushModel ==
  /\ phase = "converted"
  /\ var_type' = IF relax_ = 1 THEN RelaxIntegrality(var_type) ELSE var_type
  /\ api' = api \o PushModelTo(var_lb, var_ub, var_type', keepers)
  /\ phase' = "done"
  /\ last' = LastRec("PushModelTo", "", -1, -1, -1, -1, -1)
  /\ UNCHANGED << var_lb, var_ub, keepers, maps, var_info_, map_fixed_vars_,
                  auto_link_src_item_, auto_link_targ_items_, links, acc,
                  relax_, options_, backend, err, cvt, visited, declared >>


(***************************************************************************)
(* The whole run: the flattener adds the input model, FinishModelInput     *)
(* converts it and pushes it to the ModelAPI.                              *)
(***************************************************************************)
\* types the input model may hold
InTypes ==
  { "LinConRange", "LinConLE", "LinearFunctionalConstraint",
    "QuadraticFunctionalConstraint", "NotConstraint", "ExpConstraint" }

\* types whose acceptance differs between solvers; the linear ones are
\* accepted by every ModelAPI
AccTypes ==
  { "LinConRange", "QuadConEQ", "LinearFunctionalConstraint",
    "QuadraticFunctionalConstraint", "NotConstraint", "ExpConstraint" }

AccConfigs ==
  { f \in [Types -> {NotAccepted, Recommended}] :
      \A t \in Types \ AccTypes : f[t] = Recommended }

\* AddVars of the input model: integer variables with any declared bounds
InAddVars ==
  /\ phase = "input"
  /\ Len(var_lb) = 0
  /\ \E n \in 1..MaxInVars :
       \E lbs \in [1..n -> Vals], ubs \in [1..n -> Vals] :
         /\ Commit(AddVars(Cur, lbs, ubs, [j \in 1..n |-> INTEGER]))
         /\ declared' = << lbs, ubs >>
         /\ last' = LastRec("AddVars", "", n, -1, -1, 0, -1)
  /\ UNCHANGED << acc, relax_, options_, backend, phase, cvt, api, visited >>

\* a constraint of the input model: functional ones through
\* AssignResultVar2Args, the others through AddConstraint
InAddConstraint ==
  /\ phase = "input"
  /\ NumItems < MaxInput
  /\ \E t \in InTypes, a \in VarIds :
       LET fc == Con(Body(1, a, 0), -1)
           hit == MapFind(Cur, t, fc)
           s == IF t \in MappedTypes THEN AssignResultVar2Args(Cur, t, fc)
                ELSE AddConstraint(Cur, t, fc)
       IN /\ t \in MappedTypes => (hit >= 0 \/ Len(var_lb) < MaxVars)
          /\ Call(s, LastRec(IF t \in MappedTypes THEN "AssignResult2Args"
                             ELSE "AddConstraint", t, a, -1, 1, s.ret, hit))

Init ==
  /\ InitConverter
  /\ acc \in AccConfigs
  /\ relax_ \in {0, 1}

Next ==
  \/ InAddVars
  \/ InAddConstraint
  \/ OpFinishModelInput
  \/ OpRunConversion
  \/ OpEndOfPass
  \/ OpPushModel

Spec == Init /\ [][Next]_vars


(***************************************************************************)
(* Properties of the whole run (checked under Spec).                       *)
(***************************************************************************)
ConversionOver == phase \in {"converted", "done"}

\* no stored item is still to be converted
NoneNeedsConversion ==
  \A t \in Types : \A i \in LiveIdx(t) : ~NeedsConversion(keepers, t, i)

\* C1: after FinishModelInput, the keeper of every type the ModelAPI does
\* not accept holds no item that is still to be pushed, and no item of such a
\* type has been pushed to the ModelAPI.
C1_RejectedKeepersHoldNothingToPush ==
  ConversionOver =>
    \A t \in Types :
      acc[t] = NotAccepted =>
        /\ LiveIdx(t) = {}
        /\ \A n \in 1..Len(api) :
             api[n].op = "AddConstraint" => api[n].t # t

\* C1 witness: the model has been pushed, a rejected type had items, and
\* constraints were pushed.
C1_Witness ==
  /\ phase = "done"
  /\ \E t \in Types : acc[t] = NotAccepted /\ Len(keepers[t]) > 0
  /\ \E n \in 1..Len(api) : api[n].op = "AddConstraint"

AllItemsVisited ==
  \A t \in Types : \A i \in 0..(Len(keepers[t]) - 1) :
    \E r \in visited : r.t = t /\ r.i = i

\* the pass in which the loop first reached item i of keeper t
VisitPass(t, i) == (CHOOSE r \in visited : r.t = t /\ r.i = i).pass

\* the links that conversions recorded, with the items they appended
ChildrenOf(l) ==
  UNION { { << l.targs[n].node, j >> :
              j \in l.targs[n].first..(l.targs[n].first + l.targs[n].size - 1) }
          : n \in { m \in 1..Len(l.targs) : l.targs[m].node \in Types } }

\* C2 (as stated): ConvertItems makes one pass over the keepers, and that
\* pass reaches every constraint, the ones appended by conversions included.
C2_OnePassVisitsAll ==
  ConversionOver => (cvt.work <= 1 /\ AllItemsVisited)

\* C2 (amended): ConvertItems calls ConvertAllConstraints once, and the loop
\* passes over the keepers until a pass converts nothing; every constraint,
\* the ones appended by conversions included, is reached: in the pass that
\* appended it when its keeper comes later in the registration order, and in
\* the following pass when its keeper comes earlier, as for the linear
\* constraint that Convert(LinearFunctionalConstraint) appends.
C2_AppendedItemsVisitedInSameOrNextPass ==
  ConversionOver =>
    /\ AllItemsVisited
    /\ \A n \in 1..Len(links) :
         \A c \in ChildrenOf(links[n]) :
           LET src == links[n].src
               ps == VisitPass(src.node, src.first)
               pc == VisitPass(c[1], c[2])
           IN /\ pc = IF RegIndex(c[1]) > RegIndex(src.node)
                      THEN ps ELSE ps + 1
              /\ src.node = "LinearFunctionalConstraint" => pc = ps + 1

\* C2 witness: a Not was converted in one pass, the linear functional
\* constraint it appended to an earlier keeper in the next, and the run ended.
C2_Witness ==
  /\ phase = "done"
  /\ cvt.work >= 2
  /\ \E n \in 1..Len(links) :
       /\ links[n].src.node = "NotConstraint"
       /\ \E c \in ChildrenOf(links[n]) :
            /\ c[1] = "LinearFunctionalConstraint"
            /\ keepers[c[1]][c[2] + 1].bridged
            /\ VisitPass(c[1], c[2]) = VisitPass("NotConstraint", links[n].src.first) + 1

\* the rank of a type in the order of the rewrites: every rewrite replaces an
\* item by items whose ranks sum to less than its own
TypeRank(t) ==
  CASE t \in {"LinConRange", "NotConstraint"} -> 3
    [] t \in {"LinearFunctionalConstraint", "QuadraticFunctionalConstraint"} -> 2
    [] OTHER -> 1

RECURSIVE RankSum(_, _, _)
\* the ranks of the items not converted, summed from position (k, i) on
RankSum(ks, k, i) ==
  IF k > Len(RegOrder) THEN 0
  ELSE IF i >= Len(ks[RegOrder[k]]) THEN RankSum(ks, k + 1, 0)
  ELSE (IF ks[RegOrder[k]][i + 1].bridged THEN 0 ELSE TypeRank(RegOrder[k]))
         + RankSum(ks, k, i + 1)

\* what is left to do: the ranks of the stored items, then the pass to end
LoopMeasure(ks, c) == 2 * RankSum(ks, 1, 0) + (IF c.any THEN 1 ELSE 0)

\* a step of the loop is possible: the pass can end, or the next item can
\* be converted
CanStep(ks, c) ==
  \/ FindNext(ks, c.k, c.i) = NoPos
  \/ \A t \in Types : Len(ks[t]) < MaxItems

NoneNeedsConversionIn(ks) ==
  \A t \in Types : \A i \in 0..(Len(ks[t]) - 1) : ~NeedsConversion(ks, t, i)

\* C3: the conversion loop terminates: while it runs a step is always
\* possible, every step that does not end it (by an error or by finishing)
\* decreases a measure that is a natural number, since each rewrite replaces
\* an item by items of lower rank, and when it has finished no stored item
\* needs conversion.
C3_ConversionTerminates ==
  [][/\ phase = "convert" =>
          \/ phase' # "convert"
          \/ LoopMeasure(keepers', cvt') < LoopMeasure(keepers, cvt)
     /\ phase' = "convert" => CanStep(keepers', cvt')
     /\ phase' \in {"converted", "done"} => NoneNeedsConversionIn(keepers')
    ]_vars

\* C3 witness: the loop ended after converting items in two passes, and no
\* stored item needs conversion.
C3_Witness ==
  /\ phase = "converted"
  /\ cvt.work >= 2
  /\ NoneNeedsConversion
  /\ \E t \in Types : acc[t] = NotAccepted /\ Len(keepers[t]) > 0

\* C9: when the input model declares a variable with lb > ub, no ModelAPI
\* operation is ever invoked.
C9_InfeasibleInputNeverReachesModelAPI ==
  (\E j \in 1..Len(declared[1]) : declared[1][j] > declared[2][j])
    => api = << >>


(***************************************************************************)
(* Init expressions under AddConstraint (checked under SpecAdd).           *)
(***************************************************************************)
\* C11: an AddConstraint call that succeeds never changes the init
\* expression of a variable that already has one; only RedefineVariable
\* replaces it.
C11_AddConstraintKeepsInitExpression ==
  [][(last'.op = "AddConstraint" /\ err'.kind = "none") =>
       \A v \in 0..(Len(var_info_) - 1) :
         HasInitExpression(Cur, v) => var_info_'[v + 1] = var_info_[v + 1]
    ]_vars


(***************************************************************************)
(* Conversions by the rules of the redefinition library.  A rule is a      *)
(* sequence of AddConstraint / AddVar calls on the converter, made inside  *)
(* the autolink scope that RunConversion opens for the item.               *)
(***************************************************************************)
CallAddConstraint(t, a) ==
  [op |-> "AddConstraint", t |-> t, a |-> a, l |-> 0, u |-> 0]
CallAddVar(l, u) ==
  [op |-> "AddVar", t |-> "", a |-> -1, l |-> l, u |-> u]

\* the calls a rule may make: linear rows over a variable, new variables,
\* fixed variables
RuleCalls ==
  { CallAddConstraint(t, a) : t \in {"LinConLE", "LinConGE"}, a \in {0} }
    \cup { CallAddVar(0, 1) }
    \cup { CallAddVar(c, c) : c \in Vals }

Rules == UNION { [1..n -> RuleCalls] : n \in 0..MaxCalls }

RuleCall(s, c) ==
  IF c.op = "AddConstraint"
  THEN AddConstraint(s, c.t, Con(Body(1, c.a, 0), -1))
  ELSE AddVar(s, c.l, c.u, CONTINUOUS)

RECURSIVE RunRule(_, _, _)
\* the calls n.. of the rule, up to the first that raises
RunRule(s, rule, n) ==
  IF n > Len(rule) \/ ~Ok(s) THEN s
  ELSE RunRule(RuleCall(s, rule[n]), rule, n + 1)

\* RunConversion of item i with the rule as its Convert overload
RunConversionByRule(s, t, i, rule) ==
  LET s1 == EnsureContext(s, t, i)
      s2 == EnterAutoLinkScope(s1, SelectValueNodeRange(t, i))
  IN LeaveAutoLinkScope(RunRule(s2, rule, 1))

\* the types the rules are for
RuleTypes == {"LinConRange"}

\* the input model's rows
InAddRangeCon ==
  /\ phase = "input"
  /\ Len(var_lb) > 0
  /\ NumItems < MaxInput
  /\ LET s == AddConstraint(Cur, "LinConRange", Con(Body(1, 0, 0), -1))
     IN Call(s, LastRec("AddConstraint", "LinConRange", 0, -1, 1, s.ret, -1))

\* the keeper converts a live item by a rule and marks it converted
OpConvertByRule ==
  /\ phase = "convert"
  /\ \E t \in RuleTypes, rule \in Rules :
       \E i \in LiveIdx(t) :
         LET s1 == RunConversionByRule(Cur, t, i, rule)
             s == IF Ok(s1) THEN [s1 EXCEPT !.keepers[t][i + 1].bridged = TRUE]
                  ELSE s1
         IN /\ Len(s.var_lb) <= MaxVars
            /\ \A tt \in Types : Len(s.keepers[tt]) <= MaxItems
            /\ Commit(s)
            /\ phase' = IF Ok(s) THEN "convert" ELSE "error"
            /\ last' = [LastRec("RunConversionByRule", t, i, -1, -1, -1, -1)
                          EXCEPT !.hit = rule]
  /\ UNCHANGED << acc, relax_, options_, backend, cvt, api, visited, declared >>

NextLink ==
  \/ OpAddBinVars
  \/ OpMakeFixedVar
  \/ InAddRangeCon
  \/ OpFinishModelInput
  \/ OpConvertByRule

SpecLink == InitBnd /\ [][NextLink]_vars

(***************************************************************************)
(* Links of the value presolver.                                           *)
(***************************************************************************)
\* the node range covers entry e = <<node, index>>
Covers(nr, e) ==
  nr.node = e[1] /\ e[2] >= nr.first /\ e[2] < nr.first + nr.size

\* the number of times entry e is a target in the links ls
TargetCount(ls, e) ==
  Cardinality({ nm \in (1..Len(ls)) \X (1..(MaxCalls + 1)) :
                  /\ nm[2] <= Len(ls[nm[1]].targs)
                  /\ Covers(ls[nm[1]].targs[nm[2]], e) })

\* C12: after a conversion that returns, every variable and every item
\* it allocated is a target of exactly one link, and no entry at all, a
\* fixed variable from the cache included, is a link target twice.
C12_LinkCompleteness ==
  [][(last'.op = "RunConversionByRule" /\ err'.kind = "none") =>
       /\ \A v \in Len(var_lb)..(Len(var_lb') - 1) :
            TargetCount(links', << VarNode, v >>) = 1
       /\ \A t \in Types : \A i \in Len(keepers[t])..(Len(keepers'[t]) - 1) :
            TargetCount(links', << t, i >>) = 1
       /\ \A v \in 0..(Len(var_lb') - 1) :
            TargetCount(links', << VarNode, v >>) <= 1
    ]_vars

\* the entries of a node range, in order
Entries(nr) == [k \in 1..nr.size |-> << nr.node, nr.first + k - 1 >>]

RECURSIVE FlatTargets(_, _)
\* the entries of the target ranges n.., in order
FlatTargets(targs, n) ==
  IF n > Len(targs) THEN << >>
  ELSE Entries(targs[n]) \o FlatTargets(targs, n + 1)

RECURSIVE RuleRets(_, _, _)
\* the entries that the calls n.. of the rule return, in call order
RuleRets(s, rule, n) ==
  IF n > Len(rule) THEN << >>
  ELSE LET s1 == RuleCall(s, rule[n])
           node == IF rule[n].op = "AddConstraint" THEN rule[n].t ELSE VarNode
       IN << << node, s1.ret >> >> \o RuleRets(s1, rule, n + 1)

C14_PushOnlyAfterConversion ==
  [][/\ api' # api =>
          /\ phase = "converted" /\ phase' = "done"
          /\ api = << >>
          /\ NoneNeedsConversionIn(keepers)
          /\ keepers' = keepers
          /\ api'[1].op = "InitProblemModificationPhase"
          /\ api'[2].op = "AddVariables"
          /\ api'[Len(api')].op = "FinishProblemModificationPhase"
          /\ \A n \in 3..(Len(api') - 1) : api'[n].op = "AddConstraint"
          /\ relax_ = 1 =>
               \A j \in 1..Len(api'[2].types) : api'[2].types[j] = CONTINUOUS
          /\ relax_ = 0 => api'[2].types = var_type
     /\ (phase' = "error" \/ err'.kind # "none") => api' = << >>
     /\ phase' \in {"input", "convert", "converted"} => api' = << >>
    ]_vars

\* an integer model was pushed relaxed, with constraints
C14_Witness ==
  /\ phase = "done" /\ relax_ = 1
  /\ Len(declared[1]) > 0
  /\ api[2].i > 0
  /\ \E n \in 1..Len(api) : api[n].op = "AddConstraint"

\* a conversion raised
C14_ErrorReached == phase = "error" /\ err.kind # "none"

(***************************************************************************)
(* Rejected types without a conversion (checked under Spec).               *)
(***************************************************************************)
\* the types that have a Convert overload or an installed item converter
ConvertOverloads ==
  {"LinearFunctionalConstraint", "QuadraticFunctionalConstraint",
   "LinConRange", "NotConstraint"}

\* the message, a sequence of pieces, has the piece w
Contains(msg, w) == \E n \in 1..Len(msg) : msg[n] = w

\* C15: when the loop converts an item of a type without a Convert
\* overload, the conversion raises an error whose message has the type's
\* name and the ModelAPI's name, the run is over with that error (no
\* step follows it), and the ModelAPI has not been called.
C15_NoConversionRaises ==
  [][(last'.op = "RunConversion" /\ last'.t \notin ConvertOverloads) =>
       /\ acc[last'.t] = NotAccepted
       /\ phase' = "error"
       /\ err'.kind = "NoConversion"
       /\ Contains(err'.what, last'.t)
       /\ Contains(err'.what, ModelAPI_GetTypeName)
       /\ api' = << >>
    ]_vars

\* an exponential constraint was rejected and could not be converted
C15_Witness ==
  /\ phase = "error"
  /\ last.op = "RunConversion" /\ last.t = "ExpConstraint"
  /\ err.kind = "NoConversion"
  /\ api = << >>

(***************************************************************************)
(* Which items the loop converts (checked under Spec).                     *)
(***************************************************************************)
\* the number of links whose source is item i of keeper t
LinksFrom(ls, t, i) ==
  Cardinality({ n \in 1..Len(ls) : ls[n].src = Range(t, i, 1) })

OptionTypes == {"ExpConstraint", "PLConstraint", "SOS2Constraint"}

\* the option settings of a run: a value 0..2 for some of the tags
OptionConfigs ==
  UNION { [S -> NotAccepted..Recommended] : S \in SUBSET OptionTypes }

\* a ModelAPI that natively accepts every type
DeclaredAcceptance == [t \in Types |-> Recommended]

\* FlatModel::ConsiderAcceptanceOptions: the option's value where it is
\* set, the level the ModelAPI declares otherwise
ConsiderAcceptanceOptions(api_acc, opts) ==
  [t \in Types |-> IF t \in DOMAIN opts THEN opts[t] ELSE api_acc[t]]

InitAcc ==
  /\ InitConverter
  /\ acc \in { ConsiderAcceptanceOptions(DeclaredAcceptance, o) :
                 o \in OptionConfigs }
  /\ relax_ = 0

SpecAcc == InitAcc /\ [][Next]_vars

InitCtx ==
  /\ InitConverter
  /\ acc = [t \in Types |->
              IF t \in {"NotConstraint", "LinConRange"} THEN NotAccepted
              ELSE Recommended]
  /\ relax_ = 0

NextCtx ==
  \/ OpAddBinVars
  \/ OpAssignNot
  \/ InAddRangeCon
  \/ OpPropagateResultOfInitExpr
  \/ OpFixAsTrue
  \/ OpFinishModelInput
  \/ OpRunConversion
  \/ OpEndOfPass

SpecCtx == InitCtx /\ [][NextCtx]_vars

\* C18: RunConversion leaves the constraint with the mixed context when it
\* uses context and had none, and with the context it had in every other
\* case: when it had Positive, Negative or Mixed, or does not use context.
C18_MixedIffUsesContextAndNone ==
  [][(last'.op = "RunConversion") =>
       LET t == last'.t
           c0 == keepers[t][last'.a + 1].ctx
           c1 == keepers'[t][last'.a + 1].ctx
       IN /\ (UsesContext(t) /\ c0 = CTX_NONE) => c1 = CTX_MIX
          /\ ~(UsesContext(t) /\ c0 = CTX_NONE) => c1 = c0
    ]_vars

\* items converted with each of the contexts
C18_Witness ==
  /\ last.op = "RunConversion" /\ last.t = "NotConstraint"
  /\ keepers["NotConstraint"][last.a + 1].ctx = CTX_POS
  /\ \E i \in 1..Len(keepers["LinConRange"]) :
       /\ keepers["LinConRange"][i].bridged
       /\ keepers["LinConRange"][i].ctx = CTX_NONE

\* the order of the lattice: None below everything, Mixed above everything
CtxLeq(a, b) == a = b \/ a = CTX_NONE \/ b = CTX_MIX

\* C19: merging takes the least upper bound in None < Positive, Negative <
\* Mixed, so that merge(c, c) = c and merge(c, Mixed) = Mixed; and no
\* propagation or conversion step lowers the context of a stored
\* constraint: one that is Mixed stays Mixed.
C19_ContextNeverNarrows ==
  [][/\ \A a \in Contexts, b \in Contexts :
          /\ CtxLeq(a, MergeCtx(a, b)) /\ CtxLeq(b, MergeCtx(a, b))
          /\ \A c \in Contexts :
               (CtxLeq(a, c) /\ CtxLeq(b, c)) => CtxLeq(MergeCtx(a, b), c)
          /\ MergeCtx(a, a) = a
          /\ MergeCtx(a, CTX_MIX) = CTX_MIX
     /\ \A t \in Types : \A i \in 1..Len(keepers[t]) :
          /\ CtxLeq(keepers[t][i].ctx, keepers'[t][i].ctx)
          /\ keepers[t][i].ctx = CTX_MIX => keepers'[t][i].ctx = CTX_MIX
    ]_vars

\* FixAsTrue propagated the positive context into a constraint whose
\* context is Mixed afterwards: it was Negative or Mixed before
C19_Witness ==
  /\ last.op = "FixAsTrue" /\ err.kind = "none"
  /\ HasInitExpression(Cur, last.a)
  /\ GetConstraint(Cur, GetInitExpression(Cur, last.a).ck,
                   GetInitExpression(Cur, last.a).idx).ctx = CTX_MIX

(***************************************************************************)
(* FixAsTrue (checked under SpecBnd).                                      *)
(***************************************************************************)
\* C20: FixAsTrue(v) raises the infeasible-domain error when 1 is outside
\* the domain of v; otherwise v is left with lb = ub = 1 and, when v has an
\* init expression (k, i), item i of k has received the bounds [1, 1] and
\* the positive context: its context is merged with Positive and, for a
\* Not, its argument is narrowed to [0, 0].  When the call returns without
\* an error, lb(v) = ub(v) = 1.
C20_FixAsTrue ==
  [][(last'.op = "FixAsTrue") =>
       LET v == last'.a
           inside == lb(Cur, v) <= 1 /\ ub(Cur, v) >= 1
           ie == GetInitExpression(Cur, v)
           a == keepers[ie.ck][ie.idx + 1].body.v
       IN /\ ~inside => err' = InfeasErr
          /\ err'.kind = "none" => inside
          /\ inside => (var_lb'[v + 1] = 1 /\ var_ub'[v + 1] = 1)
          /\ (inside /\ HasInitExpression(Cur, v)) =>
               /\ keepers'[ie.ck][ie.idx + 1].ctx =
                    MergeCtx(keepers[ie.ck][ie.idx + 1].ctx, CTX_POS)
               /\ (ie.ck = "NotConstraint" /\ a # v) =>
                    /\ var_lb'[a + 1] = Max2(var_lb[a + 1], 0)
                    /\ var_ub'[a + 1] = Min2(var_ub[a + 1], 0)
          /\ (~inside /\ HasInitExpression(Cur, v)) =>
               keepers'[ie.ck][ie.idx + 1].ctx = keepers[ie.ck][ie.idx + 1].ctx
    ]_vars

\* the result of a Not was fixed as true: positive context, argument at 0
C20_Witness ==
  /\ last.op = "FixAsTrue" /\ err.kind = "none"
  /\ HasInitExpression(Cur, last.a)
  /\ GetInitExpression(Cur, last.a).ck = "NotConstraint"
  /\ GetConstraint(Cur, "NotConstraint",
                   GetInitExpression(Cur, last.a).idx).ctx = CTX_POS
  /\ lb(Cur, last.a) = 1 /\ ub(Cur, last.a) = 1

\* FixAsTrue raised for a variable whose domain does not contain 1
C20_WitnessInfeasible ==
  /\ last.op = "FixAsTrue" /\ err = InfeasErr
  /\ lb(Cur, last.a) > ub(Cur, last.a)

(***************************************************************************)
(* Convert2Var.  An expression is q*x^2 + c*x + k over one variable x = v; *)
(* a coefficient 0 means the term is absent (v = -1 when both are).        *)
(***************************************************************************)
Expr(c, v, k, q) == [c |-> c, v |-> v, k |-> k, q |-> q]

is_affine(ee) == ee.q = 0
is_variable(ee) == ee.q = 0 /\ ee.c = 1 /\ ee.k = 0
is_constant(ee) == ee.q = 0 /\ ee.c = 0
get_representing_variable(ee) == ee.v
constant_term(ee) == ee.k

\* the affine part as the body of a LinearFunctionalConstraint
MoveOutAffineExpr(ee) == Body(ee.c, ee.v, ee.k)

\* Convert2Var(AffineExpr&&)
Convert2Var_AffineExpr(s, ee) ==
  IF is_variable(ee) THEN [s EXCEPT !.ret = get_representing_variable(ee)]
  ELSE IF is_constant(ee) THEN MakeFixedVar(s, constant_term(ee))
  ELSE AssignResultVar2Args(s, "LinearFunctionalConstraint",
                            Con(MoveOutAffineExpr(ee), -1))

\* a Convert2Var(QuadraticExpr&&) without the is_affine() case
Convert2Var_QuadraticExpr_NoAffine(s, ee) ==
  IF is_variable(ee) THEN [s EXCEPT !.ret = get_representing_variable(ee)]
  ELSE IF is_constant(ee) THEN MakeFixedVar(s, constant_term(ee))
  ELSE AssignResultVar2Args(s, "QuadraticFunctionalConstraint", Con(ee, -1))

\* Convert2Var(QuadraticExpr&&)
Convert2Var_QuadraticExpr(s, ee) ==
  IF is_variable(ee) THEN [s EXCEPT !.ret = get_representing_variable(ee)]
  ELSE IF is_constant(ee) THEN MakeFixedVar(s, constant_term(ee))
  ELSE IF is_affine(ee)
       THEN AssignResultVar2Args(s, "LinearFunctionalConstraint",
                                 Con(MoveOutAffineExpr(ee), -1))
       ELSE AssignResultVar2Args(s, "QuadraticFunctionalConstraint",
                                 Con(ee, -1))

\* the expressions over the variables the converter has
Exprs ==
  { Expr(0, -1, k, 0) : k \in Vals }
    \cup { ee \in { Expr(c, v, k, q) : c \in 0..2, v \in VarIds,
                                       k \in {0, 1}, q \in {0, 1} } :
             ee.c # 0 \/ ee.q # 0 }

OpConvert2Var ==
  /\ phase = "input"
  /\ \E ee \in Exprs, quad \in BOOLEAN :
       LET s == IF quad THEN Convert2Var_QuadraticExpr(Cur, ee)
                ELSE Convert2Var_AffineExpr(Cur, ee)
       IN /\ ~quad => is_affine(ee)
          /\ Len(s.var_lb) <= MaxVars
          /\ \A t \in Types : Len(s.keepers[t]) <= MaxAdd
          /\ Commit(s)
          /\ phase' = IF Ok(s) THEN phase ELSE "error"
          /\ last' = [op |-> "Convert2Var", t |-> "", a |-> -1, b |-> -1,
                      c |-> -1, ret |-> s.ret, nv0 |-> Len(var_lb),
                      nc0 |-> 0, hit |-> -1, ee |-> ee, quad |-> quad]
  /\ UNCHANGED << acc, relax_, options_, backend, cvt, api, visited, declared >>

NextExpr ==
  \/ OpAddBinVars
  \/ OpConvert2Var

SpecExpr == InitBnd /\ [][NextExpr]_vars

\* the type and the body of the functional constraint that wraps ee
WrapType(ee) ==
  IF ee.q = 0 THEN "LinearFunctionalConstraint"
  ELSE "QuadraticFunctionalConstraint"
WrapBody(ee) == IF ee.q = 0 THEN Body(ee.c, ee.v, ee.k) ELSE ee

\* C21: Convert2Var returns the variable itself, adding nothing, for an
\* expression that is a single variable; a fixed variable with the
\* constant as both bounds, found in the cache or added to it, and no
\* constraint, for a constant; and otherwise the result variable of a
\* stored functional constraint over the expression, linear when the
\* expression has no quadratic term and quadratic when it has, adding the
\* variable and the constraint only when no equal constraint was stored.
C21_Convert2Var ==
  [][(last'.op = "Convert2Var" /\ err'.kind = "none") =>
       LET ee == last'.ee
           r == last'.ret
           T == WrapType(ee)
       IN IF ee.q = 0 /\ ee.c = 1 /\ ee.k = 0
          THEN /\ r = ee.v
               /\ var_lb' = var_lb /\ var_ub' = var_ub
               /\ keepers' = keepers /\ map_fixed_vars_' = map_fixed_vars_
          ELSE IF ee.q = 0 /\ ee.c = 0
          THEN /\ keepers' = keepers
               /\ r \in 0..(Len(var_lb') - 1)
               /\ var_lb'[r + 1] = ee.k /\ var_ub'[r + 1] = ee.k
               /\ [value |-> ee.k, var |-> r] \in map_fixed_vars_'
               /\ IF CacheHit(ee.k) >= 0
                  THEN r = CacheHit(ee.k) /\ Len(var_lb') = Len(var_lb)
                  ELSE r = Len(var_lb) /\ Len(var_lb') = Len(var_lb) + 1
          ELSE /\ \A t \in Types \ {T} : keepers'[t] = keepers[t]
               /\ \E i \in 1..Len(keepers'[T]) :
                    /\ keepers'[T][i].body = WrapBody(ee)
                    /\ keepers'[T][i].res = r
               /\ IF \E i \in 1..Len(keepers[T]) :
                       keepers[T][i].body = WrapBody(ee)
                  THEN keepers' = keepers /\ Len(var_lb') = Len(var_lb)
                  ELSE /\ Len(keepers'[T]) = Len(keepers[T]) + 1
                       /\ r = Len(var_lb) /\ Len(var_lb') = Len(var_lb) + 1
                       /\ var_info_'[r + 1] = ConInfo(T, Len(keepers[T]))
    ]_vars

\* the quadratic overload was given an affine expression that the affine
\* overload had wrapped before, and returned the same result variable;
\* a quadratic constraint and a fixed variable exist as well
C21_Witness ==
  /\ last.op = "Convert2Var" /\ err.kind = "none"
  /\ last.quad /\ last.ee.q = 0 /\ last.ee.c = 2
  /\ last.nv0 = Len(var_lb)
  /\ Len(keepers["QuadraticFunctionalConstraint"]) > 0
  /\ map_fixed_vars_ # {}

(***************************************************************************)
(* Determinism and order of the conversion loop (checked under SpecCtx).   *)
(***************************************************************************)
RECURSIVE RunAll(_, _, _, _)
\* the loop run to its end from position (k, i) of a pass, as a function
\* of the converter's state
RunAll(s, k, i, any) ==
  IF ~Ok(s) THEN s
  ELSE LET to == FindNext(s.keepers, k, i)
       IN IF to = NoPos
          THEN IF any THEN RunAll(s, 1, 0, FALSE) ELSE s
          ELSE RunAll(ConvertConstraint(s, RegOrder[to[1]], to[2]),
                      to[1], to[2] + 1, TRUE)

\* what a run leaves: variables, keepers, init expressions, links, error
Outcome(s) ==
  << s.var_lb, s.var_ub, s.var_type, s.keepers, s.var_info_, s.links,
     s.err.kind >>

C23_DuplicateAddRaises ==
  [][(last'.op \in {"AddConstraint", "RedefineVariable"}
        /\ last'.t \in MappedTypes) =>
       LET t == last'.t
           body == Body(1, last'.a, 0)
           stored == \E i \in 1..Len(keepers[t]) : keepers[t][i].body = body
       IN /\ stored => /\ err' = RaiseErr("MapInsertDuplicate", t)
                       /\ phase' = "error"
                       /\ maps' = maps
                       /\ auto_link_targ_items_' = auto_link_targ_items_
          /\ ~stored => /\ err'.kind = "none"
                        /\ [key |-> body, idx |-> Len(keepers[t])] \in maps'[t]
    ]_vars

\* RedefineVariable raised on a constraint equal to a stored one
C23_Witness ==
  /\ last.op = "RedefineVariable"
  /\ err = RaiseErr("MapInsertDuplicate", last.t)
  /\ phase = "error"

(***************************************************************************)
(* alg:relax (checked under Spec).                                         *)
(***************************************************************************)
\* C24: the push hands the ModelAPI every variable as continuous when
\* relax is 1 and with the type it has at the end of conversion when
\* relax is 0; bounds and constraints are those at the end of conversion
\* in both cases; and no step before the push changes the type of a
\* variable.
C24_RelaxDropsIntegrality ==
  [][/\ (last'.op = "PushModelTo") =>
          /\ Len(api'[2].types) = Len(var_type)
          /\ \A j \in 1..Len(var_type) :
               api'[2].types[j] = IF relax_ = 1 THEN CONTINUOUS
                                  ELSE var_type[j]
          /\ api'[2].lbs = var_lb /\ api'[2].ubs = var_ub
          /\ var_lb' = var_lb /\ var_ub' = var_ub
          /\ keepers' = keepers
          /\ SubSeq(api', 3, Len(api') - 1) = PushItems(keepers, 1, 0)
     /\ (last'.op # "PushModelTo") =>
          \A j \in 1..Len(var_type) : var_type'[j] = var_type[j]
    ]_vars

\* an integer variable and a continuous one were pushed with their types
C24_Witness ==
  /\ phase = "done" /\ relax_ = 0
  /\ \E j \in 1..Len(api[2].types) : api[2].types[j] = INTEGER
  /\ \E j \in 1..Len(api[2].types) : api[2].types[j] = CONTINUOUS

\* an integer variable was pushed as continuous
C24_WitnessRelaxed ==
  /\ phase = "done" /\ relax_ = 1
  /\ \E j \in 1..Len(var_type) : j <= Len(declared[1])
  /\ \A j \in 1..Len(api[2].types) : api[2].types[j] = CONTINUOUS

(***************************************************************************)
(* The preprocess options (checked under SpecOpt): the options are set     *)
(* within their declared range 0..1 and the converter asks the flags.      *)
(***************************************************************************)
\* the options InitOptions declares over the preprocess flags, with the
\* field each one sets
OptionNames ==
  [cvt_pre_all |-> "preprocessAnything_",
   cvt_pre_eqresult |-> "preprocessEqualityResultBounds_",
   cvt_pre_eqbinary |-> "preprocessEqualityBvar_"]

\* CanPreprocess that does not look at preprocessAnything_
CanPreprocess_NoMaster(o, f) == 0 # f

CanPreprocess(o, f) == 0 # o.preprocessAnything_ /\ 0 # f

IfPreproEqResBounds(o) == CanPreprocess(o, o.preprocessEqualityResultBounds_)

IfPreproEqBinVar(o) == CanPreprocess(o, o.preprocessEqualityBvar_)

OpSetOption ==
  /\ \E n \in DOMAIN OptionNames, v \in 0..1 :
       /\ options_' = [options_ EXCEPT ![OptionNames[n]] = v]
       /\ last' = [LastRec("SetOption", "", v, -1, -1, -1, -1)
                     EXCEPT !.t = n]
  /\ UNCHANGED << var_lb, var_ub, var_type, keepers, maps, var_info_,
                  map_fixed_vars_, auto_link_src_item_, auto_link_targ_items_,
                  links, acc, relax_, backend, err, phase, cvt, api, visited,
                  declared >>

OpIfPreproEqResBounds ==
  /\ last' = LastRec("IfPreproEqResBounds", "", -1, -1, -1,
                     IF IfPreproEqResBounds(options_) THEN 1 ELSE 0, -1)
  /\ UNCHANGED << var_lb, var_ub, var_type, keepers, maps, var_info_,
                  map_fixed_vars_, auto_link_src_item_, auto_link_targ_items_,
                  links, acc, relax_, options_, backend, err, phase, cvt, api, visited,
                  declared >>

OpIfPreproEqBinVar ==
  /\ last' = LastRec("IfPreproEqBinVar", "", -1, -1, -1,
                     IF IfPreproEqBinVar(options_) THEN 1 ELSE 0, -1)
  /\ UNCHANGED << var_lb, var_ub, var_type, keepers, maps, var_info_,
                  map_fixed_vars_, auto_link_src_item_, auto_link_targ_items_,
                  links, acc, relax_, options_, backend, err, phase, cvt, api, visited,
                  declared >>

NextOpt ==
  \/ OpSetOption
  \/ OpIfPreproEqResBounds
  \/ OpIfPreproEqBinVar
  \/ OpAddBinVars

SpecOpt == InitBnd /\ [][NextOpt]_vars

\* C25: with cvt:pre:all = 0 both flags answer false whatever the two
\* sub-options are; with cvt:pre:all = 1 each answers its own sub-option.
C25_MasterPreprocessEnable ==
  /\ (last.op = "IfPreproEqResBounds") =>
       last.ret = IF options_.preprocessAnything_ = 0 THEN 0
                  ELSE options_.preprocessEqualityResultBounds_
  /\ (last.op = "IfPreproEqBinVar") =>
       last.ret = IF options_.preprocessAnything_ = 0 THEN 0
                  ELSE options_.preprocessEqualityBvar_

\* the master switch is off, a sub-option is on, and its flag answered false
C25_Witness ==
  /\ last.op = "IfPreproEqResBounds"
  /\ options_.preprocessAnything_ = 0
  /\ options_.preprocessEqualityResultBounds_ = 1
  /\ last.ret = 0

\* the master switch is on and the two flags differ as their sub-options do
C25_WitnessOwnFlag ==
  /\ last.op = "IfPreproEqBinVar"
  /\ options_.preprocessAnything_ = 1
  /\ options_.preprocessEqualityBvar_ = 0
  /\ options_.preprocessEqualityResultBounds_ = 1
  /\ last.ret = 0

(***************************************************************************)
(* The solver application and the CPLEX backend (checked under SpecSolve): *)
(* SolverApp::Run parses, reads, solves and returns; SIGINT may arrive at  *)
(* any moment of the run.                                                  *)
(***************************************************************************)
MaxRc == 2

\* the native status codes ConvertCPLEXStatus names, and two it does not
NativeCodes ==
  {"CPX_STAT_OPTIMAL", "CPXMIP_OPTIMAL", "CPX_STAT_MULTIOBJ_OPTIMAL",
   "CPX_STAT_INFEASIBLE", "CPXMIP_INFEASIBLE", "CPX_STAT_MULTIOBJ_INFEASIBLE",
   "CPX_STAT_INForUNBD", "CPXMIP_INForUNBD", "CPX_STAT_MULTIOBJ_INForUNBD",
   "CPX_STAT_UNBOUNDED", "CPXMIP_UNBOUNDED", "CPX_STAT_MULTIOBJ_UNBOUNDED",
   "CPX_STAT_FEASIBLE_RELAXED_INF", "CPX_STAT_FEASIBLE_RELAXED_QUAD",
   "CPX_STAT_FEASIBLE_RELAXED_SUM", "CPX_STAT_NUM_BEST",
   "CPX_STAT_OPTIMAL_INFEAS", "CPX_STAT_OPTIMAL_RELAXED_INF",
   "CPX_STAT_OPTIMAL_RELAXED_QUAD", "CPX_STAT_OPTIMAL_RELAXED_SUM",
   "CPX_STAT_ABORT_USER", "CPXMIP_TIME_LIM_FEAS"}

\* ConvertCPLEXStatus that asks the interrupter before the native code
ConvertCPLEXStatus_StopFirst(optimstatus, stop, solcount) ==
  IF stop THEN << "INTERRUPTED", "interrupted" >>
  ELSE IF optimstatus \in {"CPX_STAT_OPTIMAL", "CPXMIP_OPTIMAL",
                           "CPX_STAT_MULTIOBJ_OPTIMAL"}
    THEN << "SOLVED", "optimal solution" >>
  ELSE IF optimstatus \in {"CPX_STAT_INFEASIBLE", "CPXMIP_INFEASIBLE",
                           "CPX_STAT_MULTIOBJ_INFEASIBLE"}
    THEN << "INFEASIBLE", "infeasible problem" >>
  ELSE IF optimstatus \in {"CPX_STAT_INForUNBD", "CPXMIP_INForUNBD",
                           "CPX_STAT_MULTIOBJ_INForUNBD"}
    THEN << "INF_OR_UNB", "infeasible or unbounded problem" >>
  ELSE IF optimstatus \in {"CPX_STAT_UNBOUNDED", "CPXMIP_UNBOUNDED",
                           "CPX_STAT_MULTIOBJ_UNBOUNDED"}
    THEN << "UNBOUNDED", "unbounded problem" >>
  ELSE IF optimstatus \in {"CPX_STAT_FEASIBLE_RELAXED_INF",
                           "CPX_STAT_FEASIBLE_RELAXED_QUAD",
                           "CPX_STAT_FEASIBLE_RELAXED_SUM",
                           "CPX_STAT_NUM_BEST", "CPX_STAT_OPTIMAL_INFEAS",
                           "CPX_STAT_OPTIMAL_RELAXED_INF",
                           "CPX_STAT_OPTIMAL_RELAXED_QUAD",
                           "CPX_STAT_OPTIMAL_RELAXED_SUM"}
    THEN << "UNCERTAIN", "feasible or optimal but numeric issue" >>
  ELSE IF solcount > 0 THEN << "UNCERTAIN", "feasible solution" >>
  ELSE << "UNKNOWN", "unknown solution status" >>

\* the switch over CPXgetstat: the named cases, then the default branch
ConvertCPLEXStatus(optimstatus, stop, solcount) ==
  IF optimstatus \in {"CPX_STAT_OPTIMAL", "CPXMIP_OPTIMAL",
                      "CPX_STAT_MULTIOBJ_OPTIMAL"}
    THEN << "SOLVED", "optimal solution" >>
  ELSE IF optimstatus \in {"CPX_STAT_INFEASIBLE", "CPXMIP_INFEASIBLE",
                           "CPX_STAT_MULTIOBJ_INFEASIBLE"}
    THEN << "INFEASIBLE", "infeasible problem" >>
  ELSE IF optimstatus \in {"CPX_STAT_INForUNBD", "CPXMIP_INForUNBD",
                           "CPX_STAT_MULTIOBJ_INForUNBD"}
    THEN << "INF_OR_UNB", "infeasible or unbounded problem" >>
  ELSE IF optimstatus \in {"CPX_STAT_UNBOUNDED", "CPXMIP_UNBOUNDED",
                           "CPX_STAT_MULTIOBJ_UNBOUNDED"}
    THEN << "UNBOUNDED", "unbounded problem" >>
  ELSE IF optimstatus \in {"CPX_STAT_FEASIBLE_RELAXED_INF",
                           "CPX_STAT_FEASIBLE_RELAXED_QUAD",
                           "CPX_STAT_FEASIBLE_RELAXED_SUM",
                           "CPX_STAT_NUM_BEST", "CPX_STAT_OPTIMAL_INFEAS",
                           "CPX_STAT_OPTIMAL_RELAXED_INF",
                           "CPX_STAT_OPTIMAL_RELAXED_QUAD",
                           "CPX_STAT_OPTIMAL_RELAXED_SUM"}
    THEN << "UNCERTAIN", "feasible or optimal but numeric issue" >>
  ELSE IF stop THEN << "INTERRUPTED", "interrupted" >>
  ELSE IF solcount > 0 THEN << "UNCERTAIN", "feasible solution" >>
  ELSE << "UNKNOWN", "unknown solution status" >>

HIGHS_RETCODE_OK == 0

\* `int e = (call) != HIGHS_RETCODE_OK`: e is the comparison's value
HIGHS_CCALL(call, rc) ==
  LET e == IF rc # HIGHS_RETCODE_OK THEN 1 ELSE 0
  IN IF e # 0 THEN RaiseErr("CallFailed", << call, e >>) ELSE NoErr

\* the wrapper of the CPLEX calls: the call's name and its return code
CPLEX_CALL(call, rc) ==
  IF rc # 0 THEN RaiseErr("CallFailed", << call, rc >>) ELSE NoErr

\* a step of the application: the converter is left alone
BackendStep(b, e, rec) ==
  /\ backend' = b
  /\ err' = e
  /\ last' = rec
  /\ UNCHANGED << var_lb, var_ub, var_type, keepers, maps, var_info_,
                  map_fixed_vars_, auto_link_src_item_, auto_link_targ_items_,
                  links, acc, relax_, options_, phase, cvt, api, visited,
                  declared >>

\* InterruptCplex(void *): the new flag and what the handler returns
InterruptCplex(b) == << [b EXCEPT !.terminate_flag = 1], TRUE >>

Running == backend.pc \notin {"returned", "thrown"}

\* SIGINT: the handler sets stop_ and calls the registered InterruptCplex
\* (counted in interrupts)
OpHandleSigInt ==
  /\ Running
  /\ backend.stop_ = 0
  /\ LET b1 == [backend EXCEPT !.stop_ = 1]
     IN BackendStep(IF backend.handler_
                    THEN [InterruptCplex(b1)[1] EXCEPT !.interrupts = @ + 1]
                    ELSE b1,
                    err, last)

\* Run that goes on without a file name
OpParse_GoOn ==
  /\ backend.pc = "start"
  /\ \E filename \in BOOLEAN :
       BackendStep([backend EXCEPT !.pc = "parsed",
                      !.steps = Append(@, "Parse")],
                   err, LastRec("Parse", "", -1, -1, -1,
                                IF filename THEN 1 ELSE 0, -1))

\* Run: option_parser_.Parse(argv); no file name ends the run with 0
OpParse ==
  /\ backend.pc = "start"
  /\ \E filename \in BOOLEAN :
       BackendStep(IF filename
                   THEN [backend EXCEPT !.pc = "parsed",
                           !.steps = Append(@, "Parse")]
                   ELSE [backend EXCEPT !.pc = "returned", !.ret = 0,
                           !.steps = Append(@, "Parse")],
                   err, LastRec("Parse", "", -1, -1, -1,
                                IF filename THEN 1 ELSE 0, -1))

\* Run that goes on after ParseOptions reported errors
OpParseOptions_GoOn ==
  /\ backend.pc = "parsed"
  /\ \E ok \in BOOLEAN :
       BackendStep([backend EXCEPT !.pc = "options",
                      !.steps = Append(@, "ParseOptions")],
                   err, LastRec("ParseOptions", "", -1, -1, -1,
                                IF ok THEN 1 ELSE 0, -1))

\* Run: solver_.ParseOptions; errors end the run with 1
OpParseOptions ==
  /\ backend.pc = "parsed"
  /\ \E ok \in BOOLEAN :
       BackendStep(IF ok
                   THEN [backend EXCEPT !.pc = "options",
                           !.steps = Append(@, "ParseOptions")]
                   ELSE [backend EXCEPT !.pc = "returned", !.ret = 1,
                           !.steps = Append(@, "ParseOptions")],
                   err, LastRec("ParseOptions", "", -1, -1, -1,
                                IF ok THEN 1 ELSE 0, -1))

\* Run: this->Read(nl_filename, handler); its result is not looked at, a
\* file that cannot be read leaves Run by the reader's error; after the
\* read, builder.EndBuild()
OpRead ==
  /\ backend.pc = "options"
  /\ \E ok \in BOOLEAN :
       BackendStep([backend EXCEPT !.pc = IF ok THEN "read" ELSE "thrown",
                      !.steps = IF ok THEN @ \o << "Read", "EndBuild" >>
                                ELSE Append(@, "Read")],
                   IF ok THEN err ELSE RaiseErr("ReadError", "nl_filename"),
                   LastRec("Read", "", -1, -1, -1, IF ok THEN 1 ELSE 0, -1))

\* a HiGHS C API call under HIGHS_CCALL while the model is set up
OpHighsCall ==
  /\ backend.pc = "read"
  /\ \E rc \in 0..MaxRc :
       LET e == HIGHS_CCALL("Highs_run", rc)
       IN BackendStep([backend EXCEPT !.pc = IF e = NoErr THEN @ ELSE "thrown"],
                      e, LastRec("HIGHS_CCALL", "Highs_run", rc, -1, -1, -1, -1))

OpSetInterrupter ==
  /\ backend.pc = "read"
  /\ \E rc \in 0..MaxRc :
       LET e == CPLEX_CALL("CPXsetterminate", rc)
       IN BackendStep([backend EXCEPT !.handler_ = TRUE,
                         !.pc = IF e = NoErr THEN "ready" ELSE "thrown"],
                      e, LastRec("CPLEX_CALL", "CPXsetterminate", rc,
                                 -1, -1, -1, -1))

\* a solve that clears the terminate flag on entry
OpMipopt_ClearFlag ==
  /\ backend.pc = "ready"
  /\ BackendStep([backend EXCEPT !.pc = "solving", !.terminate_flag = 0,
                    !.steps = Append(@, "Solve")], err,
                 LastRec("CPXmipopt", "", -1, -1, -1, -1, -1))

\* SolveAndReportIntermediateResults enters CPXmipopt
OpMipopt ==
  /\ backend.pc = "ready"
  /\ BackendStep([backend EXCEPT !.pc = "solving",
                    !.steps = Append(@, "Solve")], err,
                 LastRec("CPXmipopt", "", -1, -1, -1, -1, -1))

\* WindupCPLEXSolve with an interrupter that never reports Stop
OpWindupCPLEXSolve_NoInterrupter ==
  /\ backend.pc = "solving"
  /\ \E rc \in 0..MaxRc, code \in NativeCodes, n \in 0..1 :
       LET e == CPLEX_CALL("CPXmipopt", rc)
       IN BackendStep(
            IF e = NoErr
              THEN [backend EXCEPT !.pc = "solved", !.optimstatus = code,
                      !.solcount = n,
                      !.status = ConvertCPLEXStatus(code, FALSE, n)]
              ELSE [backend EXCEPT !.pc = "thrown"],
            e, LastRec("CPLEX_CALL", "CPXmipopt", rc, -1, -1, -1, -1))

\* CPXmipopt returns, then WindupCPLEXSolve sets the status
OpWindupCPLEXSolve ==
  /\ backend.pc = "solving"
  /\ \E rc \in 0..MaxRc, code \in NativeCodes, n \in 0..1 :
       LET e == CPLEX_CALL("CPXmipopt", rc)
       IN BackendStep(
            IF e = NoErr
              THEN [backend EXCEPT !.pc = "solved", !.optimstatus = code,
                      !.solcount = n,
                      !.status = ConvertCPLEXStatus(code, backend.stop_ # 0, n)]
              ELSE [backend EXCEPT !.pc = "thrown"],
            e, LastRec("CPLEX_CALL", "CPXmipopt", rc, -1, -1, -1, -1))

\* Run: `solver_.Solve(builder, *sol_handler); return 0;`
OpRunReturn ==
  /\ backend.pc = "solved"
  /\ BackendStep([backend EXCEPT !.pc = "returned", !.ret = 0], err,
                 LastRec("Run", "", -1, -1, -1, 0, -1))

NextSolve ==
  \/ OpHandleSigInt
  \/ OpParse
  \/ OpParseOptions
  \/ OpRead
  \/ OpHighsCall
  \/ OpSetInterrupter
  \/ OpMipopt
  \/ OpWindupCPLEXSolve
  \/ OpRunReturn

SpecSolve == InitBnd /\ [][NextSolve]_vars

\* the step in which CPXmipopt returns OK and the status is set
WindupStep == backend.pc = "solving" /\ backend'.pc = "solved"

\* the codes the switch names
NamedCodes == NativeCodes \ {"CPX_STAT_ABORT_USER", "CPXMIP_TIME_LIM_FEAS"}

\* C26 as stated: whenever the interrupt flag is set when the solve returns,
\* the status is INTERRUPTED, whatever the native status code.
C26_InterruptedWheneverFlagSet ==
  [][(WindupStep /\ backend.stop_ = 1) =>
       backend'.status[1] = "INTERRUPTED"]_vars

\* C26 amended: with the interrupt flag set when the solve returns, the
\* status is INTERRUPTED exactly when the native status code is none of
\* the codes the switch names; without the flag it is never INTERRUPTED.
C26_InterruptedUnlessNamedCode ==
  [][WindupStep =>
       /\ (backend.stop_ = 1) =>
            ((backend'.status[1] = "INTERRUPTED")
               <=> (backend'.optimstatus \notin NamedCodes))
       /\ (backend.stop_ = 0) => backend'.status[1] # "INTERRUPTED"
    ]_vars

\* the solve was interrupted and reports INTERRUPTED
C26_Witness ==
  /\ backend.pc = "solved"
  /\ backend.stop_ = 1 /\ backend.terminate_flag = 1
  /\ backend.status[1] = "INTERRUPTED"

\* the flag is set and the solve reports SOLVED
C26_WitnessSolved ==
  /\ backend.pc = "solved"
  /\ backend.stop_ = 1 /\ backend.terminate_flag = 1
  /\ backend.status[1] = "SOLVED"

\* C27: the status set from a native code is one of the seven statuses:
\* SOLVED for the optimal codes, INFEASIBLE for the infeasible ones,
\* INF_OR_UNB, UNBOUNDED, UNCERTAIN for the relaxed/numeric ones, and for
\* any other code INTERRUPTED if the interrupter reports Stop, else
\* UNCERTAIN if the solution pool is not empty, else UNKNOWN.
C27_ConvertStatusTotal ==
  [][WindupStep =>
       LET c == backend'.optimstatus
           st == backend'.status[1]
       IN /\ st \in {"SOLVED", "INFEASIBLE", "INF_OR_UNB", "UNBOUNDED",
                     "UNCERTAIN", "INTERRUPTED", "UNKNOWN"}
          /\ c \in {"CPX_STAT_OPTIMAL", "CPXMIP_OPTIMAL",
                    "CPX_STAT_MULTIOBJ_OPTIMAL"} => st = "SOLVED"
          /\ c \in {"CPX_STAT_INFEASIBLE", "CPXMIP_INFEASIBLE",
                    "CPX_STAT_MULTIOBJ_INFEASIBLE"} => st = "INFEASIBLE"
          /\ c \in {"CPX_STAT_INForUNBD", "CPXMIP_INForUNBD",
                    "CPX_STAT_MULTIOBJ_INForUNBD"} => st = "INF_OR_UNB"
          /\ c \in {"CPX_STAT_UNBOUNDED", "CPXMIP_UNBOUNDED",
                    "CPX_STAT_MULTIOBJ_UNBOUNDED"} => st = "UNBOUNDED"
          /\ c \in {"CPX_STAT_FEASIBLE_RELAXED_INF",
                    "CPX_STAT_FEASIBLE_RELAXED_QUAD",
                    "CPX_STAT_FEASIBLE_RELAXED_SUM", "CPX_STAT_NUM_BEST",
                    "CPX_STAT_OPTIMAL_INFEAS", "CPX_STAT_OPTIMAL_RELAXED_INF",
                    "CPX_STAT_OPTIMAL_RELAXED_QUAD",
                    "CPX_STAT_OPTIMAL_RELAXED_SUM"} => st = "UNCERTAIN"
          /\ c \notin NamedCodes =>
               st = IF backend.stop_ # 0 THEN "INTERRUPTED"
                    ELSE IF backend'.solcount > 0 THEN "UNCERTAIN"
                    ELSE "UNKNOWN"
    ]_vars

\* an unnamed code with a solution in the pool gave UNCERTAIN
C27_Witness ==
  /\ backend.pc = "solved"
  /\ backend.optimstatus = "CPXMIP_TIME_LIM_FEAS"
  /\ backend.solcount = 1
  /\ backend.status = << "UNCERTAIN", "feasible solution" >>

\* an unnamed code without a solution gave UNKNOWN
C27_WitnessUnknown ==
  /\ backend.pc = "solved"
  /\ backend.optimstatus = "CPX_STAT_ABORT_USER"
  /\ backend.status[1] = "UNKNOWN"

\* C28: a native call that returns a code other than OK raises an error
\* that carries the call's name and the code the call returned, and the
\* operation ends there.
C28_NativeErrorCarriesCode ==
  [][(/\ backend.pc \in {"read", "solving"}
      /\ last'.op \in {"HIGHS_CCALL", "CPLEX_CALL"}
      /\ backend'.stop_ = backend.stop_
      /\ last'.a # 0) =>
       /\ err' = RaiseErr("CallFailed", << last'.t, last'.a >>)
       /\ backend'.pc = "thrown"
    ]_vars

\* C29 as stated: Run returns 1 when option parsing reports errors or the
\* problem file cannot be read, and 0 after Solve has run.
C29_RunReturnsOneOnReadFailure ==
  /\ (last.op = "ParseOptions" /\ last.ret = 0) =>
       (backend.pc = "returned" /\ backend.ret = 1)
  /\ (last.op = "Read" /\ last.ret = 0) =>
       (backend.pc = "returned" /\ backend.ret = 1)
  /\ (last.op = "Run") => (backend.pc = "returned" /\ backend.ret = 0)

\* C29 amended: Run returns 1 exactly when option parsing reported
\* errors, and 0 after Solve has run, whatever status was set; when the
\* problem file cannot be read Run does not return a value, the reader's
\* error leaves it.
C29_RunReturn ==
  /\ (last.op = "ParseOptions" /\ last.ret = 0) =>
       (backend.pc = "returned" /\ backend.ret = 1)
  /\ (last.op = "Read" /\ last.ret = 0) =>
       (backend.pc = "thrown" /\ backend.ret = -1 /\ err.kind = "ReadError")
  /\ (last.op = "Run") => (backend.pc = "returned" /\ backend.ret = 0)
  /\ (backend.pc = "returned" /\ backend.ret = 1) => last.op = "ParseOptions"
  /\ (backend.pc = "returned") => backend.ret \in {0, 1}

\* Run returned 0 after a solve that reported an infeasible problem
C29_Witness ==
  /\ backend.pc = "returned" /\ backend.ret = 0
  /\ backend.status[1] = "INFEASIBLE"

\* the problem file could not be read
C29_WitnessRead ==
  /\ last.op = "Read" /\ last.ret = 0
  /\ backend.pc = "thrown"

(***************************************************************************)
(* The solution writer (checked under SpecSol): the options solutionstub   *)
(* and countsolutions are set, the solver reports feasible solutions and   *)
(* then the final one.                                                     *)
(***************************************************************************)
MaxSols == 3

Stubs == {"", "sol_a", "sol_b"}

need_multiple_solutions(b) == b.count_solutions_ \/ b.solution_stub_ # ""

\* `filename << solution_stub << num_solutions_ << ".sol"`
SolFileName(stub, n) == << stub, n, ".sol" >>

\* HandleFeasibleSolution that counts only the solutions it writes
HandleFeasibleSolution_CountWritten(b) ==
  IF b.solution_stub_ = "" THEN b
  ELSE [b EXCEPT !.num_solutions_ = @ + 1,
                 !.files = Append(@, SolFileName(b.solution_stub_,
                                                 b.num_solutions_ + 1))]

HandleFeasibleSolution(b) ==
  LET b1 == [b EXCEPT !.num_solutions_ = @ + 1]
  IN IF b1.solution_stub_ = "" THEN b1
     ELSE [b1 EXCEPT !.files = Append(@, SolFileName(b1.solution_stub_,
                                                     b1.num_solutions_))]

\* HandleSolution: the nsol suffix, then the .sol file of the writer
HandleSolution(b) ==
  LET b1 == IF need_multiple_solutions(b)
            THEN [b EXCEPT !.nsol = b.num_solutions_] ELSE b
  IN [b1 EXCEPT !.files = Append(@, << "filename_" >>), !.written = TRUE]

OpSetSolutionStub ==
  /\ ~backend.written
  /\ \E stub \in Stubs :
       BackendStep([backend EXCEPT !.solution_stub_ = stub], err,
                   LastRec("SetSolutionStub", stub, -1, -1, -1, -1, -1))

OpSetCountSolutions ==
  /\ ~backend.written
  /\ \E v \in BOOLEAN :
       BackendStep([backend EXCEPT !.count_solutions_ = v], err,
                   LastRec("SetCountSolutions", "", IF v THEN 1 ELSE 0,
                           -1, -1, -1, -1))

OpHandleFeasibleSolution ==
  /\ ~backend.written
  /\ backend.calls < MaxSols
  /\ BackendStep([HandleFeasibleSolution(backend) EXCEPT !.calls = @ + 1], err,
                 LastRec("HandleFeasibleSolution", "", -1, -1, -1, -1, -1))

OpHandleSolution ==
  /\ ~backend.written
  /\ BackendStep(HandleSolution(backend), err,
                 LastRec("HandleSolution", "", -1, -1, -1, -1, -1))

NextSol ==
  \/ OpSetSolutionStub
  \/ OpSetCountSolutions
  \/ OpHandleFeasibleSolution
  \/ OpHandleSolution

SpecSol == InitBnd /\ [][NextSol]_vars

\* a step that is a call of HandleFeasibleSolution
FeasibleStep == backend'.calls = backend.calls + 1

\* C31: the k-th call of HandleFeasibleSolution advances the solution
\* count to k and, with a non-empty stub, writes the file <stub><k>.sol,
\* with an empty stub writes nothing; and HandleSolution sets the nsol
\* suffix to the number of HandleFeasibleSolution calls made before it
\* when multiple solutions are requested, and leaves it alone otherwise.
C31_MultipleSolutionReporting ==
  [][/\ FeasibleStep =>
          /\ backend'.num_solutions_ = backend'.calls
          /\ backend'.files =
               IF backend.solution_stub_ = "" THEN backend.files
               ELSE Append(backend.files,
                           << backend.solution_stub_, backend'.calls,
                              ".sol" >>)
     /\ (backend'.written /\ ~backend.written) =>
          backend'.nsol =
            IF backend.count_solutions_ \/ backend.solution_stub_ # ""
            THEN backend.calls ELSE backend.nsol
    ]_vars

\* two solutions counted without a stub, no file but the final one, nsol 2
C31_Witness ==
  /\ backend.written
  /\ backend.solution_stub_ = "" /\ backend.count_solutions_
  /\ backend.nsol = 2
  /\ Len(backend.files) = 1

\* the second solution was written under the stub set at that moment
C31_WitnessFiles ==
  /\ Len(backend.files) >= 2
  /\ backend.files[1] = << "sol_a", 1, ".sol" >>
  /\ backend.files[2] = << "sol_b", 2, ".sol" >>

(***************************************************************************)
(* Option values (checked under SpecSet): int is IntBits wide, long long   *)
(* one bit wider; the setters of wantsol and objno are called with ints   *)
(* around the limits, an integer option holds a long long and is read as   *)
(* an int.                                                                 *)
(***************************************************************************)
IntBits == 6

INT_MAX == 2 ^ (IntBits - 1) - 1
INT_MIN == -(2 ^ (IntBits - 1))
Ints == INT_MIN..INT_MAX

\* the values the calls are made with
WantSolValues == {INT_MIN, -1, 0, 5, 15, 16, 17, INT_MAX}
ObjNoValues == {INT_MIN, -2, -1, 0, 1, INT_MAX}
LongLongs == {2 * INT_MIN, INT_MIN - 1, INT_MIN, 0, INT_MAX, INT_MAX + 1}

\* value & ~0xf in two's complement: the value with its low four bits cleared
AndNot0xf(value) == value - (value % 16)

\* SetWantSol that stores before it checks
SetWantSol_StoreFirst(b, value) ==
  IF AndNot0xf(value) # 0
  THEN << [b EXCEPT !.wantsol_ = value],
          RaiseErr("InvalidOptionValue", << "wantsol", value >>) >>
  ELSE << [b EXCEPT !.wantsol_ = value], NoErr >>

\* the backend after the call, and what the call threw
SetWantSol(b, value) ==
  IF AndNot0xf(value) # 0
  THEN << b, RaiseErr("InvalidOptionValue", << "wantsol", value >>) >>
  ELSE << [b EXCEPT !.wantsol_ = value], NoErr >>

SetObjNo(b, value) ==
  IF value < 0
  THEN << b, RaiseErr("InvalidOptionValue", << "objno", value >>) >>
  ELSE << [b EXCEPT !.objno_ = value], NoErr >>

\* SolverOption::GetValue(int &): the long long value, checked, then cast
GetValue_int(b) ==
  IF b.value < INT_MIN \/ b.value > INT_MAX
  THEN << b, RaiseErr("Error", << "Value doesn't fit in int", b.value >>) >>
  ELSE << [b EXCEPT !.int_value = b.value], NoErr >>

OpSetWantSol ==
  \E value \in WantSolValues :
    LET r == SetWantSol(backend, value)
    IN BackendStep(r[1], r[2],
                   LastRec("SetWantSol", "", value, -1, -1, -1, -1))

OpSetObjNo ==
  \E value \in ObjNoValues :
    LET r == SetObjNo(backend, value)
    IN BackendStep(r[1], r[2],
                   LastRec("SetObjNo", "", value, -1, -1, -1, -1))

\* an integer option comes to hold a long long value
OpStoreLongLong ==
  \E value \in LongLongs :
    BackendStep([backend EXCEPT !.value = value], NoErr,
                LastRec("StoreLongLong", "", value, -1, -1, -1, -1))

OpGetValue_int ==
  LET r == GetValue_int(backend)
  IN BackendStep(r[1], r[2],
                 LastRec("GetValue", "", -1, -1, -1, -1, -1))

NextSet ==
  \/ OpSetWantSol
  \/ OpSetObjNo
  \/ OpStoreLongLong
  \/ OpGetValue_int

SpecSet == InitBnd /\ [][NextSet]_vars

\* C32: SetWantSol throws InvalidOptionValue for every value outside 0..15
\* and SetObjNo for every negative value, and the stored value stays as it
\* was; any other value is stored; GetValue(int&) of a value that does not
\* fit in int raises an error and gives no int, a value that fits is given
\* as it is.
C32_InvalidOptionValueRejected ==
  [][/\ (last'.op = "SetWantSol") =>
          IF last'.a \in 0..15
          THEN err' = NoErr /\ backend'.wantsol_ = last'.a
          ELSE /\ err' = RaiseErr("InvalidOptionValue",
                                  << "wantsol", last'.a >>)
               /\ backend' = backend
     /\ (last'.op = "SetObjNo") =>
          IF last'.a >= 0
          THEN err' = NoErr /\ backend'.objno_ = last'.a
          ELSE /\ err' = RaiseErr("InvalidOptionValue",
                                  << "objno", last'.a >>)
               /\ backend' = backend
     /\ (last'.op = "GetValue") =>
          IF backend.value \in Ints
          THEN err' = NoErr /\ backend'.int_value = backend.value
          ELSE err'.kind = "Error" /\ backend' = backend
    ]_vars

\* wantsol = 16 was rejected after wantsol = 5 was set
C32_Witness ==
  /\ last.op = "SetWantSol" /\ last.a = 16
  /\ err.kind = "InvalidOptionValue"
  /\ backend.wantsol_ = 5

\* a value one above INT_MAX was not given as an int
C32_WitnessNoFit ==
  /\ last.op = "GetValue"
  /\ backend.value = INT_MAX + 1
  /\ err.kind = "Error"

(***************************************************************************)
(* The order of the steps of SolverApp::Run (checked under SpecSolve).     *)
(***************************************************************************)
RunOrder == << "Parse", "ParseOptions", "Read", "EndBuild", "Solve" >>

C33_WitnessOptionErrors ==
  /\ backend.pc = "returned" /\ backend.ret = 1
  /\ backend.steps = << "Parse", "ParseOptions" >>

(***************************************************************************)
(* CplexModelAPI: rows and the objective of the CPLEX model (checked under *)
(* SpecRow).                                                               *)
(***************************************************************************)
MaxRows == 2

\* the sense and right-hand side AddConstraint(LinConRange) hands to
\* CPXaddrows, and the range value it hands to CPXchgrngval
RangeRow(lb_, ub_) ==
  LET sense0 == "E"
      rhs0 == lb_
  IN IF lb_ = ub_ THEN [sense |-> "E", rhs |-> rhs0]
     ELSE LET sense1 == IF lb_ > MinusInfty THEN "G" ELSE sense0
          IN IF ub_ < Infty
             THEN IF sense1 = "G" THEN [sense |-> "R", rhs |-> rhs0]
                  ELSE [sense |-> "L", rhs |-> ub_]
             ELSE [sense |-> sense1, rhs |-> rhs0]

\* AddConstraint(const LinConRange&): CPXaddrows, then for a ranged row
\* CPXchgrngval; rc1, rc2 are what the two calls return
AddConstraint_LinConRange(b, lb_, ub_, rc1, rc2) ==
  LET row == RangeRow(lb_, ub_)
      e1 == CPLEX_CALL("CPXaddrows", rc1)
      b1 == [b EXCEPT !.rows = Append(@, [sense |-> row.sense,
                                          rhs |-> row.rhs, range |-> 0])]
  IN IF e1 # NoErr THEN << b, e1 >>
     ELSE IF row.sense # "R" THEN << b1, NoErr >>
     ELSE LET e2 == CPLEX_CALL("CPXchgrngval", rc2)
          IN IF e2 # NoErr THEN << b1, e2 >>
             ELSE << [b1 EXCEPT !.rows[Len(b1.rows)].range = ub_ - lb_],
                     NoErr >>

\* the ranges handed in: lb <= ub, lb finite or -infinity, ub finite or
\* +infinity
RangeBounds ==
  { p \in (Vals \cup {MinusInfty}) \X (Vals \cup {Infty}) : p[1] <= p[2] }

OpAddConstraint_LinConRange ==
  /\ Len(backend.rows) < MaxRows
  /\ \E p \in RangeBounds, rc1 \in 0..1, rc2 \in 0..1 :
       LET r == AddConstraint_LinConRange(backend, p[1], p[2], rc1, rc2)
       IN BackendStep(r[1], r[2],
                      LastRec("AddConstraint", "LinConRange", p[1], p[2],
                              -1, -1, -1))

\* CPXchgobj: the coefficients of the listed columns are replaced
ChgObj(obj, vs, coefs) ==
  [j \in 1..Len(obj) |->
     IF \E k \in 1..Len(vs) : vs[k] = j - 1
     THEN coefs[CHOOSE k \in 1..Len(vs) : vs[k] = j - 1]
     ELSE obj[j]]

\* SetLinearObjective that treats every objective as the first
SetLinearObjective_AnyObj(b, iobj, lo, rc1, rc2) ==
  LET e1 == CPLEX_CALL("CPXchgobjsen", rc1)
      b1 == [b EXCEPT !.objsen = IF lo.obj_sense = "MAX" THEN "CPX_MAX"
                                 ELSE "CPX_MIN"]
      e2 == CPLEX_CALL("CPXchgobj", rc2)
  IN IF e1 # NoErr THEN << b, e1 >>
     ELSE IF e2 # NoErr THEN << b1, e2 >>
     ELSE << [b1 EXCEPT !.obj = ChgObj(@, lo.vars, lo.coefs)], NoErr >>

\* SetLinearObjective(iobj, lo): rc1, rc2 are what the two calls return
SetLinearObjective(b, iobj, lo, rc1, rc2) ==
  IF 1 > iobj
  THEN LET e1 == CPLEX_CALL("CPXchgobjsen", rc1)
           b1 == [b EXCEPT !.objsen = IF lo.obj_sense = "MAX" THEN "CPX_MAX"
                                      ELSE "CPX_MIN"]
           e2 == CPLEX_CALL("CPXchgobj", rc2)
       IN IF e1 # NoErr THEN << b, e1 >>
          ELSE IF e2 # NoErr THEN << b1, e2 >>
          ELSE << [b1 EXCEPT !.obj = ChgObj(@, lo.vars, lo.coefs)], NoErr >>
  ELSE << b, NoErr >>

\* the objectives handed in, over two columns
LinearObjectives ==
  { [obj_sense |-> sn, vars |-> t[1], coefs |-> t[2]] :
      sn \in {"MIN", "MAX"},
      t \in { << << >>, << >> >>, << << 0 >>, << 1 >> >>,
              << << 1 >>, << 2 >> >>, << << 0, 1 >>, << 2, 1 >> >> } }

OpSetLinearObjective ==
  \E iobj \in (-1)..2, lo \in LinearObjectives, rc1 \in 0..1, rc2 \in 0..1 :
    LET r == SetLinearObjective(backend, iobj, lo, rc1, rc2)
    IN BackendStep(r[1], r[2],
                   [LastRec("SetLinearObjective", lo.obj_sense, iobj,
                            -1, -1, -1, -1) EXCEPT !.hit = lo])

NextRow ==
  \/ OpAddConstraint_LinConRange
  \/ OpSetLinearObjective

SpecRow == InitBnd /\ [][NextRow]_vars

\* the values of a.x a row of the CPLEX model allows
RowAllows(row, y) ==
  CASE row.sense = "E" -> y = row.rhs
    [] row.sense = "G" -> y >= row.rhs
    [] row.sense = "L" -> y <= row.rhs
    [] row.sense = "R" -> row.rhs <= y /\ y <= row.rhs + row.range

\* values of a.x, all finite
RowValues == (-2)..(MaxVal + 2)

\* C34: the row added for lb <= a.x <= ub allows exactly the values the
\* range allows: E with rhs lb when lb = ub, G with rhs lb when only lb is
\* finite, L with rhs ub when only ub is finite, R with rhs lb and range
\* ub - lb when both are finite and differ, and a row that restricts
\* nothing when both are infinite.
C34_RangeRowSameFeasibleSet ==
  [][(last'.op = "AddConstraint" /\ last'.t = "LinConRange"
        /\ err' = NoErr /\ Len(backend'.rows) = Len(backend.rows) + 1) =>
       LET lb_ == last'.a
           ub_ == last'.b
           row == backend'.rows[Len(backend'.rows)]
       IN /\ \A y \in RowValues :
               RowAllows(row, y) <=> (lb_ <= y /\ y <= ub_)
          /\ (lb_ = ub_) => (row.sense = "E" /\ row.rhs = lb_)
          /\ (lb_ > MinusInfty /\ ub_ = Infty) =>
               (row.sense = "G" /\ row.rhs = lb_)
          /\ (lb_ = MinusInfty /\ ub_ < Infty) =>
               (row.sense = "L" /\ row.rhs = ub_)
          /\ (lb_ > MinusInfty /\ ub_ < Infty /\ lb_ # ub_) =>
               (row.sense = "R" /\ row.rhs = lb_ /\ row.range = ub_ - lb_)
    ]_vars

\* C34 without the range that is infinite on both sides: for every other
\* range the row allows exactly the values the range allows
C34_ExceptFreeRange ==
  [][(last'.op = "AddConstraint" /\ last'.t = "LinConRange"
        /\ err' = NoErr /\ Len(backend'.rows) = Len(backend.rows) + 1
        /\ ~(last'.a = MinusInfty /\ last'.b = Infty)) =>
       \A y \in RowValues :
         RowAllows(backend'.rows[Len(backend'.rows)], y)
           <=> (last'.a <= y /\ y <= last'.b)
    ]_vars

\* C40: SetLinearObjective with iobj < 1 whose calls succeed sets the
\* sense and the coefficients of the objective and nothing else of the
\* solver model; with iobj >= 1 it leaves the solver model as it was and
\* raises no error.
C40_SetLinearObjectiveFirstOnly ==
  [][(last'.op = "SetLinearObjective") =>
       LET lo == last'.hit
       IN /\ (last'.a >= 1) => (backend' = backend /\ err' = NoErr)
          /\ (last'.a < 1 /\ err' = NoErr) =>
               /\ backend'.objsen = IF lo.obj_sense = "MAX" THEN "CPX_MAX"
                                    ELSE "CPX_MIN"
               /\ \A k \in 1..Len(lo.vars) :
                    backend'.obj[lo.vars[k] + 1] = lo.coefs[k]
               /\ backend'.rows = backend.rows
          /\ (backend' # backend) => last'.a < 1
    ]_vars

\* the second objective was handed in after the first: nothing changed
C40_Witness ==
  /\ last.op = "SetLinearObjective" /\ last.a = 1
  /\ last.hit.obj_sense = "MIN" /\ Len(last.hit.vars) = 2
  /\ backend.objsen = "CPX_MAX"
  /\ backend.obj = << 0, 2 >>
  /\ err = NoErr

(***************************************************************************)
(* SOS_1or2_Constraint<type>: the constructor stores v and w, sorts them   *)
(* by weight through a std::map<double, int> and asserts check().          *)
(***************************************************************************)
MaxSOS == 3          \* variables / weights handed to one SOS constructor
SOSVars == 0..2
SOSWeights == 1..3

\* sorted.insert({w, v}): .second tells whether the key was new
std_map_insert(sorted, k, val) ==
  IF k \in DOMAIN sorted
  THEN [second |-> FALSE, map |-> sorted]
  ELSE [second |-> TRUE,
        map |-> [x \in DOMAIN sorted \cup {k} |->
                   IF x = k THEN val ELSE sorted[x]]]

\* for (auto i=v_.size(); i--; ) MP_ASSERT_ALWAYS(sorted.insert(...).second):
\* i runs from the last index down; w_.at(i) throws past the end of w_
RECURSIVE SOS_sort_insert(_, _, _, _)
SOS_sort_insert(v, w, i, sorted) ==
  IF i = 0 THEN [e |-> NoErr, map |-> sorted]
  ELSE IF i > Len(w)
  THEN [e |-> RaiseErr("out_of_range", "vector::at"), map |-> sorted]
  ELSE LET r == std_map_insert(sorted, w[i], v[i])
       IN IF ~r.second
          THEN [e |-> RaiseErr("assert", "SOS2: weights not unique"),
                map |-> sorted]
          ELSE SOS_sort_insert(v, w, i - 1, r.map)

\* for (const auto& wv: sorted): the entries of the map in key order
RECURSIVE SOS_sort_traverse(_, _)
SOS_sort_traverse(sorted, keys) ==
  IF keys = {} THEN << >>
  ELSE LET k == CHOOSE x \in keys : \A y \in keys : x <= y
       IN << << k, sorted[k] >> >> \o SOS_sort_traverse(sorted, keys \ {k})

\* sort(): the new v_ and w_, or the error raised on the way
SOS_sort(v, w) ==
  LET r == SOS_sort_insert(v, w, Len(v), << >>)
      wv == SOS_sort_traverse(r.map, DOMAIN r.map)
  IN IF r.e # NoErr THEN [e |-> r.e, v_ |-> v, w_ |-> w]
     ELSE [e |-> NoErr,
           v_ |-> [j \in 1..Len(wv) |-> wv[j][2]],
           w_ |-> [j \in 1..Len(wv) |-> wv[j][1]]]

\* check()
SOS_check(type, v, w) == type >= 1 /\ type <= 2 /\ Len(v) = Len(w)

\* a constructor that stores v and w as they come
SOS_1or2_Constraint_Unsorted(type, v, w) ==
  [e |-> NoErr, type |-> type, v_ |-> v, w_ |-> w]

\* SOS_1or2_Constraint(v, w): v_(v), w_(w), sort(); the assert(check()) of
\* a debug build cannot fail after sort()
SOS_1or2_Constraint(type, v, w) ==
  LET s == SOS_sort(v, w)
  IN [e |-> s.e, type |-> type, v_ |-> s.v_, w_ |-> s.w_]

SOSSeqs(S) == UNION { [1..n -> S] : n \in 0..MaxSOS }

\* the constructor reads no state: one construction per behaviour
OpMakeSOS ==
  /\ last.op # "SOS"
  /\ \E type \in 1..2, v \in SOSSeqs(SOSVars), w \in SOSSeqs(SOSWeights) :
       LET c == SOS_1or2_Constraint(type, v, w)
       IN BackendStep(backend, c.e,
                      [op |-> "SOS", type |-> type, v |-> v, w |-> w,
                       v_ |-> c.v_, w_ |-> c.w_,
                       constructed |-> c.e = NoErr])

NextSOS == OpMakeSOS

SpecSOS == InitBnd /\ [][NextSOS]_vars

MadeSOS == last.op = "SOS" /\ Len(last.v) = Len(last.w)

UniqueWeights(w) == \A i, j \in 1..Len(w) : w[i] = w[j] => i = j

WVPairs(v, w) == { << v[i], w[i] >> : i \in 1..Len(v) }

\* C35: an SOS1/SOS2 constraint constructed from v and w of equal length
\* holds the same (variable, weight) pairs, ordered by strictly increasing
\* weight, with get_vars() and get_weights() of equal size; with two equal
\* weights the construction fails with "SOS2: weights not unique".
C35_SOSSortedByWeight ==
  MadeSOS =>
    IF UniqueWeights(last.w)
    THEN /\ last.constructed
         /\ err = NoErr
         /\ Len(last.v_) = Len(last.w_)
         /\ Len(last.v_) = Len(last.v)
         /\ WVPairs(last.v_, last.w_) = WVPairs(last.v, last.w)
         /\ \A i \in 1..(Len(last.w_) - 1) : last.w_[i] < last.w_[i + 1]
         /\ SOS_check(last.type, last.v_, last.w_)
    ELSE /\ ~last.constructed
         /\ err = RaiseErr("assert", "SOS2: weights not unique")

C35_Witness ==
  /\ MadeSOS
  /\ last.v = << 2, 0, 1 >>
  /\ last.w = << 3, 1, 2 >>
  /\ last.v_ = << 0, 1, 2 >>
  /\ last.w_ = << 1, 2, 3 >>

C35_WitnessNotUnique ==
  /\ MadeSOS
  /\ last.w = << 2, 1, 2 >>
  /\ ~last.constructed

(***************************************************************************)
(* Constraint types stored without a map (checked under SpecAdd).          *)
(***************************************************************************)
\* C36: AddConstraint on a type stored without a map always succeeds: it
\* appends exactly one item to the keeper of the type, leaves every other
\* keeper and every map alone and returns the index of the new item, whose
\* node range is the link target, also when a constraint with an equal
\* body is stored already; the duplicate-MapInsert error is raised for
\* types stored with a map only.
C36_NoMapNeverUnified ==
  [][/\ err'.kind = "MapInsertDuplicate" => err'.what \in MappedTypes
     /\ (last'.op = "AddConstraint" /\ last'.t \notin MappedTypes) =>
          LET t == last'.t
          IN /\ err'.kind = "none"
             /\ phase' # "error"
             /\ Len(keepers'[t]) = Len(keepers[t]) + 1
             /\ SubSeq(keepers'[t], 1, Len(keepers[t])) = keepers[t]
             /\ keepers'[t][Len(keepers'[t])].body = Body(1, last'.a, 0)
             /\ \A u \in Types \ {t} : keepers'[u] = keepers[u]
             /\ maps' = maps
             /\ last'.ret = Len(keepers[t])
             /\ last'.hit = -1
    ]_vars

\* two constraints with equal bodies are stored in a keeper without map
C36_Witness ==
  /\ last.op = "AddConstraint"
  /\ last.t = "LinConLE"
  /\ err.kind = "none"
  /\ Len(keepers["LinConLE"]) = 2
  /\ keepers["LinConLE"][1].body = keepers["LinConLE"][2].body
  /\ last.ret = 1

(***************************************************************************)
(* What an error leaves behind: AddConstraint, RedefineVariable and        *)
(* NarrowVarBounds on binary variables.                                    *)
(***************************************************************************)
NextErr ==
  \/ OpAddBinVars
  \/ OpAddConstraint
  \/ OpRedefineVariable
  \/ OpNarrowVarBounds

SpecErr == InitBnd /\ [][NextErr]_vars

\* C37: when AddConstraint (also inside RedefineVariable) raises the
\* duplicate-MapInsert error, the duplicate is the new last item of the
\* keeper and the init expression of its result variable, if it has one,
\* points to it; when NarrowVarBounds raises the infeasible-domain error,
\* the bounds of the variable are the crossing values max(lb, l), min(ub, u).
C37_ErrorsDoNotRollBack ==
  [][/\ (last'.op \in {"AddConstraint", "RedefineVariable"}
           /\ err'.kind = "MapInsertDuplicate") =>
          LET t == last'.t
              n == Len(keepers[t])
          IN /\ Len(keepers'[t]) = n + 1
             /\ SubSeq(keepers'[t], 1, n) = keepers[t]
             /\ keepers'[t][n + 1].body = Body(1, last'.a, 0)
             /\ keepers'[t][n + 1].res = last'.b
             /\ \E i \in 1..n : keepers[t][i].body = Body(1, last'.a, 0)
             /\ last'.b >= 0 => /\ Len(var_info_') > last'.b
                                /\ var_info_'[last'.b + 1] = ConInfo(t, n)
     /\ (last'.op = "NarrowVarBounds" /\ err'.kind = "infeasible") =>
          LET v == last'.a
          IN /\ var_lb'[v + 1] = Max2(var_lb[v + 1], last'.b)
             /\ var_ub'[v + 1] = Min2(var_ub[v + 1], last'.c)
             /\ var_lb'[v + 1] > var_ub'[v + 1]
    ]_vars

\* the duplicate is stored and is the init expression of its result variable
C37_Witness ==
  /\ last.op = "AddConstraint"
  /\ err.kind = "MapInsertDuplicate"
  /\ last.b >= 0
  /\ Len(keepers[last.t]) = 2
  /\ keepers[last.t][1].body = keepers[last.t][2].body
  /\ var_info_[last.b + 1] = ConInfo(last.t, 1)

\* the bounds [0,1] of a binary variable were overwritten with 1 > 0
C37_WitnessBounds ==
  /\ last.op = "NarrowVarBounds"
  /\ err.kind = "infeasible"
  /\ var_lb[last.a + 1] = 1
  /\ var_ub[last.a + 1] = 0

(***************************************************************************)
(* MakeComplementVar on the input variables, whose bounds the flattener    *)
(* may narrow between the calls.                                           *)
(***************************************************************************)
\* a MakeComplementVar that does not look at the bounds
MakeComplementVar_AnyBounds(s, bvar) ==
  Convert2Var_AffineExpr(s, Expr(-1, bvar, 1, 0))

\* MakeComplementVar(bvar): the variable of AffineExpr({{-1.0}, {bvar}}, 1.0)
MakeComplementVar(s, bvar) ==
  IF ~(lb(s, bvar) = 0 /\ ub(s, bvar) = 1)
  THEN [s EXCEPT !.err = RaiseErr("ComplementBounds",
                                  << lb(s, bvar), ub(s, bvar) >>),
                 !.ret = -1]
  ELSE Convert2Var_AffineExpr(s, Expr(-1, bvar, 1, 0))

OpMakeComplementVar ==
  /\ phase = "input"
  /\ \E bvar \in VarIds :
       /\ ~HasInitExpression(Cur, bvar)
       /\ LET s == MakeComplementVar(Cur, bvar)
          IN Call(s, LastRec("MakeComplementVar", "", bvar, lb(Cur, bvar),
                             ub(Cur, bvar), s.ret, -1))

NextCompl ==
  \/ OpAddVars
  \/ OpNarrowVarBounds
  \/ OpMakeComplementVar

SpecCompl == InitBnd /\ [][NextCompl]_vars

LFC == "LinearFunctionalConstraint"

\* the items of the keeper that define a variable as 1 - b
ComplementItems(ks, b) ==
  { i \in 1..Len(ks[LFC]) : ks[LFC][i].body = Body(-1, b, 1) }

\* C38: MakeComplementVar(b) raises and changes no variable, keeper, map or
\* init expression unless the bounds of b are exactly [0,1]; otherwise it
\* returns a variable whose init expression is the
\* LinearFunctionalConstraint 1 - b: the first call adds that one variable
\* and that one constraint, every later call returns the same variable and
\* adds nothing, so the keeper never holds two items for 1 - b.
C38_MakeComplementVar ==
  [][last'.op = "MakeComplementVar" =>
       LET b == last'.a
           r == last'.ret
           old == ComplementItems(keepers, b)
       IN IF ~(var_lb[b + 1] = 0 /\ var_ub[b + 1] = 1)
          THEN /\ err'.kind = "ComplementBounds"
               /\ phase' = "error"
               /\ UNCHANGED << var_lb, var_ub, var_type, keepers, maps,
                               var_info_, map_fixed_vars_ >>
          ELSE /\ err'.kind = "none"
               /\ r >= 0 /\ r < Len(var_lb') /\ r # b
               /\ HasId(var_info_'[r + 1])
               /\ var_info_'[r + 1].ck = LFC
               /\ keepers'[LFC][var_info_'[r + 1].idx + 1].body
                    = Body(-1, b, 1)
               /\ keepers'[LFC][var_info_'[r + 1].idx + 1].res = r
               /\ Cardinality(ComplementItems(keepers', b)) = 1
               /\ \A t \in Types \ {LFC} : keepers'[t] = keepers[t]
               /\ IF old # {}
                  THEN UNCHANGED << var_lb, var_ub, var_type, keepers, maps,
                                    var_info_ >>
                  ELSE /\ Len(var_lb') = Len(var_lb) + 1
                       /\ r = Len(var_lb)
                       /\ Len(keepers'[LFC]) = Len(keepers[LFC]) + 1
    ]_vars

\* a second call for the same b returned the variable of the first
C38_Witness ==
  /\ last.op = "MakeComplementVar"
  /\ err.kind = "none"
  /\ last.nv0 = Len(var_lb)
  /\ Len(keepers[LFC]) = 1
  /\ keepers[LFC][1].res = last.ret

\* a call for a variable with bounds other than [0,1] raised
C38_WitnessRaised ==
  /\ last.op = "MakeComplementVar"
  /\ err.kind = "ComplementBounds"
  /\ last.b = 0 /\ last.c = 0
  /\ Len(keepers[LFC]) = 1

(***************************************************************************)
(* The terminate flag over several solves of one process.                  *)
(***************************************************************************)
MaxSolves == 2       \* solves one process makes

NumSolves == Len(SelectSeq(backend.steps, LAMBDA x : x = "Solve"))

\* the driver solves again: SetInterrupter has been called, the flag and
\* the interrupter are those of the process
OpSolveAgain ==
  /\ backend.pc = "solved"
  /\ NumSolves < MaxSolves
  /\ BackendStep([backend EXCEPT !.pc = "ready"], err,
                 LastRec("SolveAgain", "", -1, -1, -1, -1, -1))

NextTerm ==
  \/ OpHandleSigInt
  \/ OpParse
  \/ OpParseOptions
  \/ OpRead
  \/ OpSetInterrupter
  \/ OpMipopt
  \/ OpWindupCPLEXSolve
  \/ OpSolveAgain
  \/ OpRunReturn

SpecTerm == InitBnd /\ [][NextTerm]_vars

SolveStep == backend'.steps = Append(backend.steps, "Solve")

\* C39: the terminate flag starts at 0; InterruptCplex sets it to 1 and
\* returns true; no step ever lowers it; and a solve entered after
\* InterruptCplex has been called finds the flag at 1.
C39_TerminateFlagMonotone ==
  /\ backend.terminate_flag = 0
  /\ [][/\ backend'.terminate_flag >= backend.terminate_flag
        /\ backend'.terminate_flag \in {0, 1}
        /\ backend'.interrupts > backend.interrupts =>
             /\ backend'.terminate_flag = 1
             /\ InterruptCplex(backend)[2]
        /\ backend'.terminate_flag # backend.terminate_flag =>
             backend'.interrupts > backend.interrupts
        /\ (SolveStep /\ backend.interrupts > 0) =>
             /\ backend.terminate_flag = 1
             /\ backend'.terminate_flag = 1
       ]_vars

\* the second solve of the process runs with the flag set by the interrupt
\* that ended the first (whose status is still the one set by its windup)
C39_Witness ==
  /\ NumSolves = 2
  /\ backend.pc = "solving"
  /\ backend.status = << "INTERRUPTED", "interrupted" >>
  /\ backend.interrupts = 1
  /\ backend.terminate_flag = 1

=============================================================================
